---- MODULE Spec2Model ----
(***************************************************************************)
(* A model of treebot: the watering log kept by TreeLoggingCog (log_tree,  *)
(* set_default_next_water, fetch_logs, calc_up_down), the log store        *)
(* TreeLogFile (append_log, read_log) and the cache TreeNextWater.         *)
(*                                                                         *)
(* Time.  A datetime is an integer number of ticks after Epoch0, Res ticks *)
(* to the second.  A timestamp written to a CSV log is a whole number of   *)
(* seconds after Epoch0 (strftime drops the sub-second part).              *)
(***************************************************************************)
EXTENDS Integers, Sequences, FiniteSets, TLC

\* ------------------------------------------------------------- bounds
\* ticks of the clock (datetime.now) the model runs through
MaxTime == 3
\* concurrent on_raw_message_edit handlers
NTasks == 2
\* guilds the bot serves
NGuilds == 1
MaxGuilds == 2
\* ticks an edit may be old when its handler is dispatched
MaxLag == 1
\* the latest second, after Epoch0, an embed's timestamp marker names
MaxStamp == 2
\* rows a log of TreeLogFile grows to
MaxRows == 3
\* the latest second, after Epoch0, an event of such a log starts or ends at
MaxReadSec == 1
\* the seconds of the events and windows of SpecWindow
MaxWideSec == 2
\* the latest second, after Epoch0, a watering of an aggregated log starts or ends at
MaxAggSec == 3
\* the longest window calc_up_down is asked for, in hours
MaxHours == 3
\* the longest outlier_duration a guild is configured with, in seconds
MaxOutlier == 2
\* concurrent on_raw_message_edit handlers of TreeNotifCog
NGateTasks == 2
\* messages the bot gets to send to a notification channel
MaxMessages == 2

\* ------------------------------------------------------ time and format
\* DATETIME_STRING_FORMAT has second resolution; datetimes are finer
Res == 2
\* the epoch second of model tick 0 (2025-01-01 00:00:00 UTC)
Epoch0 == 1735689600
\* timedelta(hours=1), scaled down to the length of a second
Hour == Res
\* set_default_next_water: cutoff = now - timedelta(hours=3)
BootstrapWindow == 3 * Hour

Times == 0..MaxTime
Secs == 0..MaxStamp
Tasks == 1..NTasks
\* the task running set_default_next_water (on_ready, on_guild_join)
Boot == 0

\* the value of a dict entry that is not there, a result that is None
None == -1000000

\* dt.strftime(DATETIME_STRING_FORMAT): the second the tick lies in
Strftime(t) == t \div Res
\* parse_dates with date_format, then tz_localize(utc)
ParseDate(s) == s * Res
\* datetime.fromtimestamp(timestamp, tz=utc)
FromTimestamp(n) == (n - Epoch0) * Res

\* ---------------------------------------------------------------- text
DigitChars == <<"0", "1", "2", "3", "4", "5", "6", "7", "8", "9">>
LowerChars == <<"a", "b", "c", "d", "e", "f", "g", "h", "i", "j", "k", "l", "m",
                "n", "o", "p", "q", "r", "s", "t", "u", "v", "w", "x", "y", "z">>
UpperChars == <<"A", "B", "C", "D", "E", "F", "G", "H", "I", "J", "K", "L", "M",
                "N", "O", "P", "Q", "R", "S", "T", "U", "V", "W", "X", "Y", "Z">>
Range(s) == {s[i] : i \in DOMAIN s}
IndexOf(s, c) == CHOOSE i \in DOMAIN s : s[i] = c
IsDigit(c) == c \in Range(DigitChars)
IsAlpha(c) == c \in Range(LowerChars) \cup Range(UpperChars)
DigitVal(c) == IndexOf(DigitChars, c) - 1
\* str.lower() on one character
LowerChar(c) == IF c \in Range(UpperChars) THEN LowerChars[IndexOf(UpperChars, c)] ELSE c
Lower(text) == [i \in DOMAIN text |-> LowerChar(text[i])]
\* needle in text
Contains(text, needle) ==
    \E i \in 1..(Len(text) - Len(needle) + 1) :
        SubSeq(text, i, i + Len(needle) - 1) = needle

\* int(group): the decimal value of a digit string
RECURSIVE ParseInt(_)
ParseInt(ds) ==
    IF ds = <<>> THEN 0
    ELSE ParseInt(SubSeq(ds, 1, Len(ds) - 1)) * 10 + DigitVal(ds[Len(ds)])

\* the decimal digits of n >= 0, as the game bot prints them
RECURSIVE Digits(_)
Digits(n) ==
    IF n < 10 THEN <<DigitChars[n + 1]>>
    ELSE Digits(n \div 10) \o <<DigitChars[(n % 10) + 1]>>

\* PATTERN_TIMESTAMP = (?<=<t:)(\d+)(?=:?[a-zA-Z]?>)
\* the lookahead :?[a-zA-Z]?> at position j
Lookahead(text, j) ==
    \E a \in {0, 1}, b \in {0, 1} :
        /\ j + a + b <= Len(text)
        /\ a = 1 => text[j] = ":"
        /\ b = 1 => IsAlpha(text[j + a])
        /\ text[j + a + b] = ">"
\* the lookbehind <t: before position i
Lookbehind(text, i) ==
    /\ i >= 4
    /\ SubSeq(text, i - 3, i - 1) = <<"<", "t", ":">>
\* the lengths k for which \d+ matches text[i..i+k-1] and the lookahead follows
MatchLens(text, i) ==
    {k \in 1..(Len(text) - i + 1) :
        /\ \A m \in i..(i + k - 1) : IsDigit(text[m])
        /\ Lookahead(text, i + k)}
MatchesAt(text, i) == Lookbehind(text, i) /\ MatchLens(text, i) # {}
Max(S) == CHOOSE x \in S : \A y \in S : y <= x
Min(S) == CHOOSE x \in S : \A y \in S : x <= y
\* PATTERN_TIMESTAMP.search(text).group(): the first match from the left,
\* the longest digit run there; <<>> when search returns None
PatternTimestampSearch(text) ==
    LET starts == {i \in DOMAIN text : MatchesAt(text, i)}
    IN  IF starts = {} THEN <<>>
        ELSE LET i == Min(starts)
             IN  SubSeq(text, i, i + Max(MatchLens(text, i)) - 1)

\* embed texts of the game bot
ReadyToBeWatered ==
    <<"r", "e", "a", "d", "y", " ", "t", "o", " ", "b", "e", " ",
      "w", "a", "t", "e", "r", "e", "d">>
\* "ready to water in <t:N:R>"
StampText(n) ==
    <<"r", "e", "a", "d", "y", " ", "t", "o", " ", "w", "a", "t", "e", "r", " ",
      "i", "n", " ", "<", "t", ":">> \o Digits(n) \o <<":", "R", ">">>
\* "Ready to be watered!"
ReadyText == <<"R">> \o SubSeq(ReadyToBeWatered, 2, 19) \o <<"!">>
\* a tree message that carries no timestamp marker
PlainText == <<"y", "o", "u", "r", " ", "t", "r", "e", "e", " ", "i", "s", " ", "3", "f", "t">>
\* a marker that the pattern does not accept: <t:N:RR>
BadStampText(n) == <<"<", "t", ":">> \o Digits(n) \o <<":", "R", "R", ">">>
\* two markers: <t:N> <t:M:R>
TwoStampText(n, m) ==
    <<"<", "t", ":">> \o Digits(n) \o <<">", " ">> \o <<"<", "t", ":">> \o Digits(m) \o <<":", "R", ">">>

EmbedTexts ==
    {StampText(Epoch0 + s) : s \in Secs}
    \cup {ReadyText, PlainText, BadStampText(Epoch0 + 1), TwoStampText(Epoch0 + MaxStamp, Epoch0)}

\* ------------------------------------------------------------ the state
VARIABLES
    now,          \* datetime.now(tz=utc), in ticks
    file,         \* data/<guild_id>.csv of every guild
    mutex,        \* TreeLoggingCog.mutex: the task holding it, or None
    next_water,   \* TreeLoggingCog.next_water: guild -> datetime, None if no key
    pc,           \* where each on_raw_message_edit handler stands
    loc,          \* the handler's locals
    bpc,          \* where set_default_next_water stands
    bloc,         \* its locals
    nw_next,      \* TreeNextWater.next_water: guild -> datetime, None if no key
    nw_duration,  \* TreeNextWater.water_duration: guild -> ticks, None if no key
    nw_loaded,    \* TreeNextWater.loaded
    config,       \* BotConfigFile.data: guild -> key -> dict, without "notification"
    running,      \* is_running() of every tasks.loop
    query,        \* the arguments of the query being answered
    result,       \* what the query returned
    notifications,  \* TreeNotifCog.notifications: guild -> category -> message
    messages,       \* every message the bot has sent to a notification channel
    message_mutex,  \* TreeNotifCog.message_mutex: the task holding it, or None
    nconfig,        \* the "notification" config of every guild
    gpc,            \* where each handler of TreeNotifCog stands
    gloc,           \* its locals
    loaded,         \* TreeLogFile.loaded
    tmutex,         \* TreeLogFile.mutex: guild -> the caller holding it, or None
    spc,            \* where each call of a TreeLogFile method stands
    sloc,           \* its arguments
    lpc,            \* where TreeLogFile.load_logs stands
    lloc            \* the guilds it has yet to go through

\* the state of TreeNotifCog, and that of TreeLogFile
gateVars == <<notifications, messages, message_mutex, nconfig, gpc, gloc>>
storeVars == <<loaded, tmutex, spc, sloc, lpc, lloc>>
vars == <<now, file, mutex, next_water, pc, loc, bpc, bloc, nw_next, nw_duration, nw_loaded, config, running, query, result,
          gateVars, storeVars>>

\* the guilds the bot is in: each has its data/<guild_id>.csv entry
Guilds == DOMAIN file

\* --------------------------------------------------------- the log file
\* a row of a CSV log: log_tree writes two fields (wet, dry), append_log
\* writes three (start, end, type); NoType is the missing third field
NoType == "-"
Row(s, e, c) == [start |-> s, end |-> e, type |-> c]
AbsentFile == [exists |-> FALSE, header |-> "", rows |-> <<>>]
\* DataFrame(columns=[...]).to_csv(log_path, index=False): a header-only file
BlankFile(h) == [exists |-> TRUE, header |-> h, rows |-> <<>>]
\* df.to_csv(log_path, mode="a", header=False): one more line at the end;
\* opening for append creates a missing file, with no header line
AppendRow(f, r) == [exists |-> TRUE, header |-> f.header, rows |-> Append(f.rows, r)]

\* what a reader gets that cannot parse the file; a frame otherwise
Raised == [ok |-> FALSE, rows |-> <<>>]
Frame(rows) == [ok |-> TRUE, rows |-> rows]

\* TreeLoggingCog.fetch_logs on what pandas.read_csv found in the file:
\* the rows with wet <= dry that overlap [start, end], in file order, as
\* datetimes; the read raises when the columns wet, dry are not there or a
\* line has more fields than the header
FetchLogsWetDry(f, start, end) ==
    IF f.header # "wet,dry" \/ \E i \in DOMAIN f.rows : f.rows[i].type # NoType
    THEN Raised
    ELSE LET df == [i \in DOMAIN f.rows |->
                        [wet |-> ParseDate(f.rows[i].start), dry |-> ParseDate(f.rows[i].end)]]
             InOrder(r) == r.wet <= r.dry
             InWindow(r) == r.dry >= start /\ r.wet <= end
         IN  Frame(SelectSeq(SelectSeq(df, InOrder), InWindow))
FetchLogs(f, start, end) == FetchLogsWetDry(f, start, end)

\* ------------------------------------------- BotConfigFile, tasks.loop
\* set_default_data: the keys of a guild other than "notification", with
\* the fields the handlers look at; a channel_id or tree_name is set
\* (TRUE) or None (FALSE)
DefaultData ==
    [general |-> [channel_id |-> FALSE, tree_name |-> FALSE],
     status_message |-> [channel_id |-> FALSE],
     tree_goal |-> [channel_id |-> FALSE, reached |-> TRUE]]
\* config_general has set the channel and the name of the tree
TreeData == [DefaultData EXCEPT !.general = [channel_id |-> TRUE, tree_name |-> TRUE]]
\* config_tree_goal has set a channel: reached = False
GoalData == [TreeData EXCEPT !.tree_goal = [channel_id |-> TRUE, reached |-> FALSE]]
\* config_general has set the channel alone; config_status has set a channel
ChannelData == [DefaultData EXCEPT !.general = [channel_id |-> TRUE, tree_name |-> FALSE]]
StatusData == [TreeData EXCEPT !.status_message = [channel_id |-> TRUE]]
\* check_tree: "skip if the config is not set up correctly"
ChannelOnly(general) == general.channel_id
SetUp(general) == general.channel_id /\ general.tree_name

\* the loops of TreeLoggingCog and of TreeNotifCog
LoggingLoops == {"status_message"}
NotifLoops == {"process_water_notification", "remove_notifications"}
Loops == LoggingLoops \cup NotifLoops
\* if not loop.is_running(): loop.start(), for every loop of the cog
Restarted(loops) == [l \in Loops |-> running[l] \/ l \in loops]
\* the body of the loop raised: the task of the loop is done
Stopped(loop) == [running EXCEPT ![loop] = FALSE]

\* ------------------------------------------- TreeLoggingCog.log_tree
IdleLoc == [guild |-> 0, edited_at |-> 0, timestamp |-> 0, outcome |-> "none"]
\* log_tree has returned to check_tree: what is left is the guild and, for
\* the record, how log_tree ended
Returned(g, how) == [IdleLoc EXCEPT !.guild = g, !.outcome = how]

\* self.next_water.get(str(guild_id), datetime.now(tz=pytz.utc))
NextWaterGet(g) == IF next_water[g] = None THEN now ELSE next_water[g]

\* a check that forgets the cached next_water
RejectsEditedOnly(timestamp, edited_at, cached) == timestamp <= edited_at
\* a check that lets a timestamp equal to edited_at through
RejectsStrictlyBefore(timestamp, edited_at, cached) ==
    timestamp < edited_at \/ timestamp <= cached
\* the check under the mutex: the timestamp is before edited_at or next_water
Rejects(timestamp, edited_at, cached) == timestamp <= edited_at \/ timestamp <= cached

\* the row log_tree appends: {'wet': edited_at, 'dry': timestamp}, formatted
LogTreeRow(edited_at, timestamp) == Row(Strftime(edited_at), Strftime(timestamp), NoType)

\* a lock that lets everyone in
MutexIgnored == TRUE
\* asyncio.Lock: acquire returns once the lock is not held
MutexFree == mutex = None

\* what log_tree makes of an embed text before it takes the mutex: "ready",
\* "no timestamp", or the timestamp as a datetime
LogTreeParse(text) ==
    LET found == PatternTimestampSearch(text)
    IN  IF Contains(Lower(text), ReadyToBeWatered) THEN [kind |-> "ready", timestamp |-> 0]
        ELSE IF found = <<>> THEN [kind |-> "no timestamp", timestamp |-> 0]
        ELSE [kind |-> "timestamp", timestamp |-> FromTimestamp(ParseInt(found))]
Parsed == [text \in EmbedTexts |-> LogTreeParse(text)]

\* an edited message of guild g arrives; log_tree runs up to its mutex.
\* "ready to be watered" in the text: nothing to do.  No timestamp: return.
LogTreeStart(t, g, text, edited_at) ==
    /\ pc[t] = "idle"
    /\ IF ~SetUp(config[g].general)
       \* check_tree returns, and on_raw_message_edit restarts its loop
       THEN /\ running' = Restarted(LoggingLoops)
            /\ UNCHANGED <<pc, loc>>
       ELSE /\ UNCHANGED running
            /\ IF Parsed[text].kind = "timestamp"
               THEN /\ pc' = [pc EXCEPT ![t] = "lock"]
                    /\ loc' = [loc EXCEPT ![t] = [guild |-> g, edited_at |-> edited_at,
                                                  timestamp |-> Parsed[text].timestamp,
                                                  outcome |-> "none"]]
               ELSE /\ pc' = [pc EXCEPT ![t] = "goal"]
                    /\ loc' = [loc EXCEPT ![t] = Returned(g, Parsed[text].kind)]
    /\ UNCHANGED <<now, file, mutex, next_water, bpc, bloc, nw_next, nw_duration, nw_loaded, config, query, result, gateVars, storeVars>>

\* async with self.mutex, then the check: a rejected signal returns at once
LogTreeCheck(t) ==
    /\ pc[t] = "lock"
    /\ MutexFree
    /\ IF Rejects(loc[t].timestamp, loc[t].edited_at, NextWaterGet(loc[t].guild))
       THEN /\ pc' = [pc EXCEPT ![t] = "goal"]
            /\ loc' = [loc EXCEPT ![t] = Returned(loc[t].guild,
                          IF loc[t].timestamp <= loc[t].edited_at
                          THEN "rejected: not after edited_at"
                          ELSE "rejected: not after next_water")]
            /\ UNCHANGED mutex
       ELSE /\ pc' = [pc EXCEPT ![t] = "append"]
            /\ mutex' = t
            /\ UNCHANGED loc
    /\ UNCHANGED <<now, file, next_water, bpc, bloc, nw_next, nw_duration, nw_loaded, config, running, query, result, gateVars, storeVars>>

\* await asyncio.to_thread(df.to_csv(log_path, mode="a", header=False))
LogTreeAppend(t) ==
    /\ pc[t] = "append"
    /\ file' = [file EXCEPT ![loc[t].guild] =
                   AppendRow(@, LogTreeRow(loc[t].edited_at, loc[t].timestamp))]
    /\ pc' = [pc EXCEPT ![t] = "update"]
    /\ UNCHANGED <<now, mutex, next_water, loc, bpc, bloc, nw_next, nw_duration, nw_loaded, config, running, query, result, gateVars, storeVars>>

\* the cache after a write that raised: the assignment is never reached
CacheUpdatedAnyway(cache, g, timestamp) == [cache EXCEPT ![g] = timestamp]
CacheAfterRaise(cache, g, timestamp) == cache

\* the write raises (disk unavailable, permission denied): the exception
\* leaves the async with block, which releases the mutex, and goes up
\* through check_tree to on_raw_message_edit
LogTreeAppendFails(t) ==
    /\ pc[t] = "append"
    /\ pc' = [pc EXCEPT ![t] = "raised"]
    /\ next_water' = CacheAfterRaise(next_water, loc[t].guild, loc[t].timestamp)
    /\ loc' = [loc EXCEPT ![t] = Returned(loc[t].guild, "raised")]
    /\ mutex' = IF mutex = t THEN None ELSE mutex
    /\ UNCHANGED <<now, file, bpc, bloc, nw_next, nw_duration, nw_loaded, config, running, query, result, gateVars, storeVars>>

\* nothing catches it: the handler ends with the exception
LogTreeRaised(t) ==
    /\ pc[t] = "raised"
    /\ pc' = [pc EXCEPT ![t] = "idle"]
    /\ loc' = [loc EXCEPT ![t] = IdleLoc]
    /\ UNCHANGED <<now, file, mutex, next_water, bpc, bloc, nw_next, nw_duration, nw_loaded, config, running, query, result, gateVars, storeVars>>

\* self.next_water[str(guild_id)] = timestamp, and the mutex is released
LogTreeUpdate(t) ==
    /\ pc[t] = "update"
    /\ next_water' = [next_water EXCEPT ![loc[t].guild] = loc[t].timestamp]
    /\ mutex' = IF mutex = t THEN None ELSE mutex
    /\ pc' = [pc EXCEPT ![t] = "goal"]
    /\ loc' = [loc EXCEPT ![t] = Returned(loc[t].guild, "accepted")]
    /\ UNCHANGED <<now, file, bpc, bloc, nw_next, nw_duration, nw_loaded, config, running, query, result, gateVars, storeVars>>

\* check_tree goes on to check_goal, which leaves the log and the cache
\* alone: no channel, or reached, or the value of the pattern is not in
\* the text or has not passed the goal (passed: what the pattern and the
\* goal of the config make of the text), and the handler ends by
\* restarting its loop; else the notification is sent
CheckGoal(t) ==
    \E passed \in BOOLEAN :
        LET goal == config[loc[t].guild].tree_goal
        IN  /\ pc[t] = "goal"
            /\ IF goal.channel_id /\ ~goal.reached /\ passed
               THEN /\ pc' = [pc EXCEPT ![t] = "goal_send"]
                    /\ UNCHANGED <<loc, running>>
               ELSE /\ pc' = [pc EXCEPT ![t] = "idle"]
                    /\ loc' = [loc EXCEPT ![t] = IdleLoc]
                    /\ running' = Restarted(LoggingLoops)
            /\ UNCHANGED <<now, file, mutex, next_water, bpc, bloc, nw_next, nw_duration, nw_loaded, config, query, result, gateVars, storeVars>>

\* util_send_message_in_channel returns the message: config["reached"] =
\* True in the copy get_data returned, and set_data puts the copy in the
\* place of the dict of the guild before it waits for save_json
Reached(goal) == [goal EXCEPT !.reached = TRUE]
GoalSendReturns(t, created_at) ==
    /\ pc[t] = "goal_send"
    /\ Len(messages) < MaxMessages
    /\ created_at <= now
    /\ messages' = Append(messages,
                          [guild |-> loc[t].guild, category |-> "goal",
                           created_at |-> created_at, deleted |-> FALSE])
    /\ config' = [config EXCEPT ![loc[t].guild].tree_goal = Reached(@)]
    /\ pc' = [pc EXCEPT ![t] = "goal_save"]
    /\ UNCHANGED <<now, file, mutex, next_water, loc, bpc, bloc, nw_next, nw_duration, nw_loaded, running, query, result,
                   notifications, message_mutex, nconfig, gpc, gloc, storeVars>>

\* it returns None: nothing is set, and the handler ends
GoalSendFails(t) ==
    /\ pc[t] = "goal_send"
    /\ pc' = [pc EXCEPT ![t] = "idle"]
    /\ loc' = [loc EXCEPT ![t] = IdleLoc]
    /\ running' = Restarted(LoggingLoops)
    /\ UNCHANGED <<now, file, mutex, next_water, bpc, bloc, nw_next, nw_duration, nw_loaded, config, query, result, gateVars, storeVars>>

\* save_json is over: the handler ends, with the exception of the write
\* when it raised
GoalSaved(t, ok) ==
    /\ pc[t] = "goal_save"
    /\ pc' = [pc EXCEPT ![t] = "idle"]
    /\ loc' = [loc EXCEPT ![t] = IdleLoc]
    /\ running' = IF ok THEN Restarted(LoggingLoops) ELSE running
    /\ UNCHANGED <<now, file, mutex, next_water, bpc, bloc, nw_next, nw_duration, nw_loaded, config, query, result, gateVars, storeVars>>

\* ------------------------------ TreeLoggingCog.set_default_next_water
IdleBoot == [queue |-> <<>>, now |-> 0, val |-> [ok |-> TRUE, val |-> None]]

\* the value the bootstrap takes from the log: the dry of the last row of
\* the past three hours, or now when there is none
BootValue(f, n) ==
    LET df == FetchLogs(f, n - BootstrapWindow, n)
    IN  IF ~df.ok THEN [ok |-> FALSE, val |-> None]
        ELSE IF df.rows = <<>> THEN [ok |-> TRUE, val |-> n]
        ELSE [ok |-> TRUE, val |-> df.rows[Len(df.rows)].dry]

\* an assignment in the place of setdefault
Assigned(d, g, value) == [d EXCEPT ![g] = value]
\* self.next_water.setdefault(str(guild_id), value)
SetDefault(d, g, value) == IF d[g] = None THEN [d EXCEPT ![g] = value] ELSE d

\* on_ready (all guilds) or on_guild_join (one guild) calls set_default_next_water
BootStart(guild_ids) ==
    /\ bpc \in {"idle", "done", "raised"}
    /\ bpc' = "guild"
    /\ bloc' = [IdleBoot EXCEPT !.queue = guild_ids]
    /\ UNCHANGED <<now, file, mutex, next_water, pc, loc, nw_next, nw_duration, nw_loaded, config, running, query, result, gateVars, storeVars>>

\* the head of the loop: now, log_path.exists(), and the mutex if it is free
BootGuild ==
    /\ bpc = "guild"
    /\ IF bloc.queue = <<>>
       THEN /\ bpc' = "done"
            /\ bloc' = IdleBoot
            /\ UNCHANGED mutex
       ELSE LET g == Head(bloc.queue)
                branch == IF file[g].exists THEN "read" ELSE "create"
            IN  /\ bloc' = [bloc EXCEPT !.now = now]
                /\ IF MutexFree
                   THEN /\ mutex' = Boot
                        /\ bpc' = branch
                   ELSE /\ bpc' = "lock " \o branch
                        /\ UNCHANGED mutex
    /\ UNCHANGED <<now, file, next_water, pc, loc, nw_next, nw_duration, nw_loaded, config, running, query, result, gateVars, storeVars>>

\* async with self.mutex, after waiting for it
BootAcquire ==
    /\ bpc \in {"lock read", "lock create"}
    /\ MutexFree
    /\ mutex' = Boot
    /\ bpc' = IF bpc = "lock read" THEN "read" ELSE "create"
    /\ UNCHANGED <<now, file, next_water, pc, loc, bloc, nw_next, nw_duration, nw_loaded, config, running, query, result, gateVars, storeVars>>

\* fetch_logs: pandas.read_csv in a thread, under the mutex
BootRead ==
    /\ bpc = "read"
    /\ bloc' = [bloc EXCEPT !.val = BootValue(file[Head(bloc.queue)], bloc.now)]
    /\ bpc' = "read done"
    /\ UNCHANGED <<now, file, mutex, next_water, pc, loc, nw_next, nw_duration, nw_loaded, config, running, query, result, gateVars, storeVars>>

\* create a blank log: df.to_csv(log_path, index=False) writes the file anew
BootCreate ==
    /\ bpc = "create"
    /\ file' = [file EXCEPT ![Head(bloc.queue)] = BlankFile("wet,dry")]
    /\ bloc' = [bloc EXCEPT !.val = [ok |-> TRUE, val |-> bloc.now]]
    /\ bpc' = "create done"
    /\ UNCHANGED <<now, mutex, next_water, pc, loc, nw_next, nw_duration, nw_loaded, config, running, query, result, gateVars, storeVars>>

\* the mutex is released; setdefault; the next guild.  A read that raised
\* ends set_default_next_water with the guilds left in the list untouched.
BootSet ==
    /\ bpc \in {"read done", "create done"}
    /\ mutex' = None
    /\ IF ~bloc.val.ok
       THEN /\ bpc' = "raised"
            /\ bloc' = IdleBoot
            /\ UNCHANGED next_water
       ELSE /\ next_water' = SetDefault(next_water, Head(bloc.queue), bloc.val.val)
            /\ bloc' = [IdleBoot EXCEPT !.queue = Tail(bloc.queue)]
            /\ bpc' = "guild"
    /\ UNCHANGED <<now, file, pc, loc, nw_next, nw_duration, nw_loaded, config, running, query, result, gateVars, storeVars>>

\* ------------------------------------------ utils.tree_logs.TreeLogFile
\* the calls of append_log and read_log in progress: a handler of
\* TreeNotifCog makes its calls under its own number
Callers == 1..NGateTasks
IdleCall == [guild |-> 0, data |-> Row(0, 0, NoType)]
\* self.mutex = {}: the guild has no lock yet
NoLock == -1
\* TreeLogFile as constructed, and as load_logs leaves it when it has gone
\* through every guild
StoreAtRest ==
    /\ tmutex = [g \in Guilds |-> NoLock]
    /\ spc = [k \in Callers |-> "idle"]
    /\ sloc = [k \in Callers |-> IdleCall]
    /\ lpc = "idle"
    /\ lloc = <<>>
StoreLoaded ==
    /\ tmutex = [g \in Guilds |-> None]
    /\ spc = [k \in Callers |-> "idle"]
    /\ sloc = [k \in Callers |-> IdleCall]
    /\ lpc = "idle"
    /\ lloc = <<>>

\* "while not self.loaded: await asyncio.sleep(1)" lets a caller through
IsLoaded(flag, locks, g) == flag

\* append_log past the loaded flag: self.mutex[guild_id] raises KeyError
\* for a guild with no lock; a free lock is taken and the write starts in
\* its thread; a held one is waited for
AppendLogEnter(k, g) ==
    IF tmutex[g] = NoLock
    THEN /\ spc' = [spc EXCEPT ![k] = "raised"]
         /\ UNCHANGED tmutex
    ELSE IF tmutex[g] = None
    THEN /\ spc' = [spc EXCEPT ![k] = "write"]
         /\ tmutex' = [tmutex EXCEPT ![g] = k]
    ELSE /\ spc' = [spc EXCEPT ![k] = "wait"]
         /\ UNCHANGED tmutex

\* append_log up to its first suspension
AppendLogCalled(k, g, data) ==
    /\ sloc' = [sloc EXCEPT ![k] = [guild |-> g, data |-> data]]
    /\ IF IsLoaded(loaded, tmutex, g)
       THEN AppendLogEnter(k, g)
       ELSE /\ spc' = [spc EXCEPT ![k] = "wait"]
            /\ UNCHANGED tmutex
    /\ UNCHANGED <<loaded, lpc, lloc>>

\* the caller that waited gets past the loaded flag and the lock
AppendLogAcquire(k) ==
    /\ spc[k] = "wait"
    /\ IsLoaded(loaded, tmutex, sloc[k].guild)
    /\ tmutex[sloc[k].guild] \in {None, NoLock}
    /\ AppendLogEnter(k, sloc[k].guild)
    /\ UNCHANGED <<now, file, mutex, next_water, pc, loc, bpc, bloc, nw_next, nw_duration, nw_loaded, config, running,
                   query, result, gateVars, loaded, sloc, lpc, lloc>>

\* df.to_csv(log_path, mode="a", header=False) in its thread
AppendLogWrite(k) ==
    /\ spc[k] = "write"
    /\ file' = [file EXCEPT ![sloc[k].guild] = AppendRow(@, sloc[k].data)]
    /\ spc' = [spc EXCEPT ![k] = "written"]
    /\ UNCHANGED <<now, mutex, next_water, pc, loc, bpc, bloc, nw_next, nw_duration, nw_loaded, config, running,
                   query, result, gateVars, loaded, tmutex, sloc, lpc, lloc>>

\* append_log returns: the lock is released
AppendLogReturned(k) ==
    /\ spc' = [spc EXCEPT ![k] = "idle"]
    /\ sloc' = [sloc EXCEPT ![k] = IdleCall]
    /\ tmutex' = [tmutex EXCEPT ![sloc[k].guild] = None]
    /\ UNCHANGED <<loaded, lpc, lloc>>

\* a caller other than the gate: the call, and its return or its KeyError
AppendLogStart(k, g, data) ==
    /\ spc[k] = "idle"
    /\ gpc[k] = "idle"
    /\ AppendLogCalled(k, g, data)
    /\ UNCHANGED <<now, file, mutex, next_water, pc, loc, bpc, bloc, nw_next, nw_duration, nw_loaded, config, running,
                   query, result, gateVars>>
AppendLogDone(k) ==
    /\ spc[k] = "written"
    /\ gpc[k] = "idle"
    /\ AppendLogReturned(k)
    /\ UNCHANGED <<now, file, mutex, next_water, pc, loc, bpc, bloc, nw_next, nw_duration, nw_loaded, config, running,
                   query, result, gateVars>>
AppendLogRaised(k) ==
    /\ spc[k] = "raised"
    /\ gpc[k] = "idle"
    /\ spc' = [spc EXCEPT ![k] = "idle"]
    /\ sloc' = [sloc EXCEPT ![k] = IdleCall]
    /\ UNCHANGED <<now, file, mutex, next_water, pc, loc, bpc, bloc, nw_next, nw_duration, nw_loaded, config, running,
                   query, result, gateVars, loaded, tmutex, lpc, lloc>>

\* load_logs as far as it gets without waiting: a lock for every guild it
\* passes, up to the first guild with no log file, or to the end
RECURSIVE LoadLoop(_, _)
LoadLoop(guild_ids, locks) ==
    IF guild_ids = <<>> THEN [pc |-> "idle", queue |-> <<>>, mutex |-> locks]
    ELSE LET g == Head(guild_ids)
             setdefault == IF locks[g] = NoLock THEN [locks EXCEPT ![g] = None] ELSE locks
         IN  IF ~file[g].exists
             THEN [pc |-> "create", queue |-> guild_ids, mutex |-> setdefault]
             ELSE LoadLoop(Tail(guild_ids), setdefault)
\* self.loaded = True at the end of the loop
LoadLogsGoesOn(guild_ids) ==
    LET to == LoadLoop(guild_ids, tmutex)
    IN  /\ lpc' = to.pc
        /\ lloc' = to.queue
        /\ tmutex' = to.mutex
        /\ loaded' = IF to.pc = "idle" THEN TRUE ELSE loaded

\* on_ready (all guilds) or on_guild_join (one guild) calls load_logs
LoadLogsStart(guild_ids) ==
    /\ lpc = "idle"
    /\ LoadLogsGoesOn(guild_ids)
    /\ UNCHANGED <<now, file, mutex, next_water, pc, loc, bpc, bloc, nw_next, nw_duration, nw_loaded, config, running,
                   query, result, gateVars, spc, sloc>>

\* DataFrame(columns=['start', 'end', 'type']).to_csv(log_path) in its
\* thread, then the guilds that are left
LoadLogsCreate ==
    /\ lpc = "create"
    /\ file' = [file EXCEPT ![Head(lloc)] = BlankFile("start,end,type")]
    /\ LoadLogsGoesOn(Tail(lloc))
    /\ UNCHANGED <<now, mutex, next_water, pc, loc, bpc, bloc, nw_next, nw_duration, nw_loaded, config, running,
                   query, result, gateVars, spc, sloc>>

\* ---------------------------------------- cogs.treenotification.TreeNotifCog
GateTasks == 1..NGateTasks
\* process_water_notification, the one loop of its kind, has a place of
\* its own next to the handlers
WaterLoop == 0
\* the categories process_button_notification goes through, in its order
ButtonCategories == <<"insect", "fruit">>
\* the emojis of the buttons of a tree message: the watering can and the
\* refresh button, with the bug net when there is an insect; baskets only
\* while fruit is falling
ButtonSets == {{"droplet", "refresh"}, {"droplet", "refresh", "bugnet"}, {"basket"}}
\* the "notification" config: channel_id set or None, the flags of the
\* button categories and temporary; water is off unless WithWater sets it
NotifConfig(channel, insect, fruit, temporary) ==
    [channel_id |-> channel, insect |-> insect, fruit |-> fruit, water |-> FALSE,
     temporary |-> temporary]
\* set_default_data: no channel, nothing enabled, temporary
DefaultNotifConfig == NotifConfig(FALSE, FALSE, FALSE, TRUE)
WithWater(notification) == [notification EXCEPT !.water = TRUE]
NotifConfigs == {NotifConfig(ch, i, f, tmp) : ch \in BOOLEAN, i \in BOOLEAN, f \in BOOLEAN, tmp \in BOOLEAN}

\* self.notifications has no key for the guild before load_guild_notifications
NoKey == [loaded |-> FALSE, insect |-> None, fruit |-> None, water |-> None]
NoNotifications == [loaded |-> TRUE, insect |-> None, fruit |-> None, water |-> None]
IdleGate ==
    [guild |-> 0, category |-> "none", buttons |-> {}, config |-> DefaultNotifConfig,
     message |-> None, requested_at |-> 0, returned |-> "nothing", guild_ids |-> <<>>]
GateAtRest ==
    /\ messages = <<>>
    /\ message_mutex = None
    /\ gpc = [t \in GateTasks \cup {WaterLoop} |-> "idle"]
    /\ gloc = [t \in GateTasks \cup {WaterLoop} |-> IdleGate]

\* tree_has_insect and tree_has_basket
TreeHasInsect(buttons, cached) ==
    \/ "bugnet" \in buttons
    \/ "droplet" \notin buttons /\ cached # None
TreeHasBasket(buttons) == "basket" \in buttons
Condition(category, buttons, cached) ==
    IF category = "insect" THEN TreeHasInsect(buttons, cached) ELSE TreeHasBasket(buttons)

\* async with self.message_mutex: the lock is free, and is free again
\* when the block is left
MessageMutexIgnored(lock) == TRUE
MessageMutexFree(lock) == lock = None
StillHeld(t) == t
Released(t) == None

\* send_notification under the lock: "skip if the message was already sent"
NeverSent(cached) == FALSE
AlreadySent(cached) == cached # None

\* the handler stops at an await, or returns
GateSuspend(t, where, locals, cache, lock) ==
    /\ gpc' = [gpc EXCEPT ![t] = where]
    /\ gloc' = [gloc EXCEPT ![t] = locals]
    /\ notifications' = cache
    /\ message_mutex' = lock
    /\ running' = running
\* check_tree returns and on_raw_message_edit restarts the loops of the
\* cog that are not running; an iteration of the water loop is over
GateFinish(t, cache, lock) ==
    /\ gpc' = [gpc EXCEPT ![t] = "idle"]
    /\ gloc' = [gloc EXCEPT ![t] = IdleGate]
    /\ notifications' = cache
    /\ message_mutex' = lock
    /\ running' = IF t = WaterLoop THEN running ELSE Restarted(NotifLoops)
\* an exception ends the handler before it gets to the loops, or ends
\* the water loop
GateRaise(t, cache, lock) ==
    /\ gpc' = [gpc EXCEPT ![t] = "idle"]
    /\ gloc' = [gloc EXCEPT ![t] = IdleGate]
    /\ notifications' = cache
    /\ message_mutex' = lock
    /\ running' = IF t = WaterLoop THEN Stopped("process_water_notification") ELSE running

\* process_button_notification from "if config[category]" on, as far as it
\* gets without waiting: cache and lock are self.notifications and the
\* holder of message_mutex as the handler has left them so far
RECURSIVE Evaluate(_, _, _, _, _)
RECURSIVE WaterEvaluate(_, _, _, _, _)
Continue(t, category, locals, cache, lock) ==
    IF category = "insect"
    THEN Evaluate(t, "fruit", locals, cache, lock)
    ELSE IF category = "water"
    THEN WaterEvaluate(t, locals.guild_ids, locals, cache, lock)
    ELSE GateFinish(t, cache, lock)
Evaluate(t, category, locals, cache, lock) ==
    LET g == locals.guild
        here == [locals EXCEPT !.category = category]
    IN  IF ~locals.config[category]
        THEN Continue(t, category, locals, cache, lock)
        \* self.notifications[str(guild_id)] raises KeyError
        ELSE IF ~cache[g].loaded
        THEN GateRaise(t, cache, lock)
        ELSE IF Condition(category, locals.buttons, cache[g][category])
        \* send_notification: async with self.message_mutex
        THEN IF ~MessageMutexFree(lock)
             THEN GateSuspend(t, "send_lock", here, cache, lock)
             ELSE IF AlreadySent(cache[g][category])
             THEN Continue(t, category, locals, cache, lock)
             ELSE GateSuspend(t, "sending", [here EXCEPT !.requested_at = now], cache, t)
        \* delete_notification, log_button_notification, then None
        ELSE IF cache[g][category] = None
             THEN Continue(t, category, locals, cache, lock)
             ELSE GateSuspend(t, "delete", [here EXCEPT !.message = cache[g][category]],
                              cache, lock)

\* fetch_guild: self.next_water.get(guild_id, datetime.now(tz=pytz.utc))
FetchGuild(g) == IF nw_next[g] = None THEN now ELSE nw_next[g]
\* tree_needs_watering
TreeNeedsWatering(g) == now > FetchGuild(g)

\* process_water_notification once fetch_guild is past its loaded flag:
\* send_notification when the tree needs watering, else delete_notification
\* and None, with no log; self.notifications[str(guild_id)] raises KeyError
\* and the iteration is over
WaterDecide(t, locals, cache, lock) ==
    LET g == locals.guild
    IN  IF TreeNeedsWatering(g)
        THEN IF ~MessageMutexFree(lock)
             THEN GateSuspend(t, "send_lock", locals, cache, lock)
             ELSE IF ~cache[g].loaded
             THEN GateRaise(t, cache, lock)
             ELSE IF AlreadySent(cache[g].water)
             THEN Continue(t, "water", locals, cache, lock)
             ELSE GateSuspend(t, "sending", [locals EXCEPT !.requested_at = now], cache, t)
        ELSE IF ~cache[g].loaded
             THEN GateRaise(t, cache, lock)
             ELSE IF cache[g].water = None
             THEN Continue(t, "water", locals, cache, lock)
             ELSE GateSuspend(t, "water_delete", [locals EXCEPT !.message = cache[g].water],
                              cache, lock)

\* the for loop of process_water_notification over guild_ids, as far as
\* it gets without waiting; fetch_guild waits while TreeNextWater is not
\* loaded
WaterEvaluate(t, guild_ids, locals, cache, lock) ==
    IF guild_ids = <<>>
    THEN GateFinish(t, cache, lock)
    ELSE LET g == Head(guild_ids)
             here == [IdleGate EXCEPT !.guild = g, !.category = "water",
                                      !.config = nconfig[g], !.guild_ids = Tail(guild_ids)]
         IN  IF ~nconfig[g].channel_id \/ ~nconfig[g].water
             THEN WaterEvaluate(t, Tail(guild_ids), locals, cache, lock)
             ELSE IF ~nw_loaded
             THEN GateSuspend(t, "fetch", here, cache, lock)
             ELSE WaterDecide(t, here, cache, lock)

\* one iteration of the loop: guild_ids = [guild.id for guild in self.bot.guilds]
ProcessWaterNotification(guild_ids) ==
    /\ running["process_water_notification"]
    /\ gpc[WaterLoop] = "idle"
    /\ WaterEvaluate(WaterLoop, guild_ids, IdleGate, notifications, message_mutex)
    /\ UNCHANGED <<now, file, mutex, next_water, pc, loc, bpc, bloc, nw_next, nw_duration, nw_loaded, config,
                   query, result, messages, nconfig, storeVars>>

\* fetch_guild finds TreeNextWater loaded
FetchGuildReturns(t) ==
    /\ gpc[t] = "fetch"
    /\ nw_loaded
    /\ WaterDecide(t, gloc[t], notifications, message_mutex)
    /\ UNCHANGED <<now, file, mutex, next_water, pc, loc, bpc, bloc, nw_next, nw_duration, nw_loaded, config,
                   query, result, messages, nconfig, storeVars>>

\* on_raw_message_edit with a tree message of the guild: check_tree,
\* process_button_notification up to its first wait
GateStart(t, g, buttons) ==
    /\ gpc[t] = "idle"
    /\ IF ~SetUp(config[g].general) \/ ~nconfig[g].channel_id
       THEN /\ running' = Restarted(NotifLoops)
            /\ UNCHANGED <<notifications, message_mutex, gpc, gloc>>
       ELSE Evaluate(t, "insect",
                     [IdleGate EXCEPT !.guild = g, !.buttons = buttons, !.config = nconfig[g]],
                     notifications, message_mutex)
    /\ UNCHANGED <<now, file, mutex, next_water, pc, loc, bpc, bloc, nw_next, nw_duration, nw_loaded, config,
                   query, result, messages, nconfig, storeVars>>

\* send_notification gets the lock: "skip if the message was already sent"
SendAcquire(t) ==
    /\ gpc[t] = "send_lock"
    /\ MessageMutexFree(message_mutex)
    /\ IF ~notifications[gloc[t].guild].loaded
       THEN GateRaise(t, notifications, message_mutex)
       ELSE IF AlreadySent(notifications[gloc[t].guild][gloc[t].category])
       THEN Continue(t, gloc[t].category, gloc[t], notifications, message_mutex)
       ELSE GateSuspend(t, "sending", [gloc[t] EXCEPT !.requested_at = now], notifications, t)
    /\ UNCHANGED <<now, file, mutex, next_water, pc, loc, bpc, bloc, nw_next, nw_duration, nw_loaded, config,
                   query, result, messages, nconfig, storeVars>>

\* a message in the channel, and what message.delete() leaves of the
\* channel: NotFound, Forbidden and HTTPException are logged and dropped
Message(g, category, created_at) ==
    [guild |-> g, category |-> category, created_at |-> created_at, deleted |-> FALSE]
DeleteMessage(channel, message, done) ==
    IF done THEN [channel EXCEPT ![message].deleted = TRUE] ELSE channel
\* process_button_notification sets the entry to None after logging
CacheCleared(cache, g, category) == [cache EXCEPT ![g][category] = None]
\* delete_notification deletes the message and leaves the cache as it is
ClearedAfterDelete(cache, g, category) == [cache EXCEPT ![g][category] = None]
CacheAfterDelete(cache, g, category) == cache

\* util_send_message_in_channel returns the message, created while the
\* request was under way, and send_notification caches it and goes on to
\* delete it when the config says temporary
SendReturns(t, created_at) ==
    LET g == gloc[t].guild
        category == gloc[t].category
        message == Len(messages) + 1
        cache == [notifications EXCEPT ![g][category] = message]
        locals == [gloc[t] EXCEPT !.returned = "message"]
    IN  /\ gpc[t] = "sending"
        /\ Len(messages) < MaxMessages
        /\ gloc[t].requested_at <= created_at /\ created_at <= now
        /\ messages' = Append(messages, Message(g, category, created_at))
        /\ IF gloc[t].config.temporary
           THEN GateSuspend(t, "temp_delete", [locals EXCEPT !.message = message],
                            cache, Released(t))
           ELSE Continue(t, category, locals, cache, Released(t))
        /\ UNCHANGED <<now, file, mutex, next_water, pc, loc, bpc, bloc, nw_next, nw_duration, nw_loaded, config,
                       query, result, nconfig, storeVars>>

\* util_send_message_in_channel returns None: no channel, no permission,
\* or channel.send raised
SendFails(t) ==
    LET g == gloc[t].guild
        category == gloc[t].category
        cache == [notifications EXCEPT ![g][category] = None]
    IN  /\ gpc[t] = "sending"
        /\ Continue(t, category, [gloc[t] EXCEPT !.returned = "None"], cache, Released(t))
        /\ UNCHANGED <<now, file, mutex, next_water, pc, loc, bpc, bloc, nw_next, nw_duration, nw_loaded, config,
                       query, result, messages, nconfig, storeVars>>

\* the delete request of a temporary notification is over
TempDeleteReturns(t, done) ==
    LET g == gloc[t].guild
        category == gloc[t].category
    IN  /\ gpc[t] = "temp_delete"
        /\ messages' = DeleteMessage(messages, gloc[t].message, done)
        /\ Continue(t, category, [gloc[t] EXCEPT !.message = None],
                    CacheAfterDelete(notifications, g, category), message_mutex)
        /\ UNCHANGED <<now, file, mutex, next_water, pc, loc, bpc, bloc, nw_next, nw_duration, nw_loaded, config,
                       query, result, nconfig, storeVars>>

\* the row log_button_notification has appended
ButtonRowSwapped(created_at, deleted_at, category) ==
    Row(Strftime(deleted_at), Strftime(created_at), category)
ButtonRow(created_at, deleted_at, category) ==
    Row(Strftime(created_at), Strftime(deleted_at), category)

\* the delete request of the condition that has gone is over;
\* log_button_notification looks the message up again and calls append_log
DeleteReturns(t, done) ==
    LET g == gloc[t].guild
        category == gloc[t].category
        message == notifications[g][category]
    IN  /\ gpc[t] = "delete"
        /\ messages' = DeleteMessage(messages, gloc[t].message, done)
        /\ IF message = None
           THEN /\ Continue(t, category, [gloc[t] EXCEPT !.message = None],
                            notifications, message_mutex)
                /\ UNCHANGED storeVars
           ELSE /\ GateSuspend(t, "append", [gloc[t] EXCEPT !.message = None],
                               notifications, message_mutex)
                /\ AppendLogCalled(t, g, ButtonRow(messages[message].created_at, now, category))
        /\ UNCHANGED <<now, file, mutex, next_water, pc, loc, bpc, bloc, nw_next, nw_duration, nw_loaded, config,
                       query, result, nconfig>>

\* the delete request of the water notification is over:
\* self.notifications[str(guild_id)]["water"] = None, and nothing is logged
WaterDeleteReturns(t, done) ==
    LET g == gloc[t].guild
    IN  /\ gpc[t] = "water_delete"
        /\ messages' = DeleteMessage(messages, gloc[t].message, done)
        /\ Continue(t, "water", [gloc[t] EXCEPT !.message = None],
                    CacheCleared(notifications, g, "water"), message_mutex)
        /\ UNCHANGED <<now, file, mutex, next_water, pc, loc, bpc, bloc, nw_next, nw_duration, nw_loaded, config,
                       query, result, nconfig, storeVars>>

\* append_log is back: self.notifications[str(guild_id)][category] = None
AppendReturns(t) ==
    LET g == gloc[t].guild
        category == gloc[t].category
    IN  /\ gpc[t] = "append"
        /\ spc[t] = "written"
        /\ AppendLogReturned(t)
        /\ Continue(t, category, gloc[t], CacheCleared(notifications, g, category), message_mutex)
        /\ UNCHANGED <<now, file, mutex, next_water, pc, loc, bpc, bloc, nw_next, nw_duration, nw_loaded, config,
                       query, result, messages, nconfig>>

\* remove_notifications, an iteration of the loop: in every guild with a
\* notification channel the messages of the bot sent more than an hour
\* before the iteration began are deleted; the guilds with no channel are
\* passed over.  At the guild failing the channel cannot be had, and the
\* iteration returns there (caught) or raises
RECURSIVE CleanUp(_, _, _, _)
CleanUp(guild_ids, channel, cutoff, failing) ==
    IF guild_ids = <<>> THEN channel
    ELSE LET g == Head(guild_ids)
             Dead(i) == /\ channel[i].guild = g
                        /\ channel[i].category \in {"insect", "fruit", "water"}
                        /\ channel[i].created_at < cutoff
         IN  IF ~nconfig[g].channel_id THEN CleanUp(Tail(guild_ids), channel, cutoff, failing)
             ELSE IF g = failing THEN channel
             ELSE CleanUp(Tail(guild_ids),
                          [i \in DOMAIN channel |->
                              IF Dead(i) THEN [channel[i] EXCEPT !.deleted = TRUE]
                              ELSE channel[i]],
                          cutoff, failing)
RemoveNotifications(guild_ids, failing, caught) ==
    /\ running["remove_notifications"]
    /\ messages' = CleanUp(guild_ids, messages, now - Hour, failing)
    /\ running' = IF failing \in Range(guild_ids) /\ nconfig[failing].channel_id /\ ~caught
                  THEN Stopped("remove_notifications") ELSE running
    /\ UNCHANGED <<now, file, mutex, next_water, pc, loc, bpc, bloc, nw_next, nw_duration, nw_loaded, config,
                   query, result, notifications, message_mutex, nconfig, gpc, gloc, storeVars>>

\* status_message, an iteration of the loop: a guild with no channel is
\* passed over, and so is every guild on a day outside valid_days; on a
\* valid day with a channel config["valid_days"][1] or
\* next_message.strptime raises before anything is sent
StatusMessage(guild_ids, valid_day) ==
    /\ running["status_message"]
    /\ running' = IF valid_day /\ \E g \in Range(guild_ids) : config[g].status_message.channel_id
                  THEN Stopped("status_message") ELSE running
    /\ UNCHANGED <<now, file, mutex, next_water, pc, loc, bpc, bloc, nw_next, nw_duration, nw_loaded, config,
                   query, result, gateVars, storeVars>>

\* load_guild_notifications: setdefault for every guild of the list
LoadGuildNotifications(guild_ids) ==
    /\ notifications' = [g \in Guilds |->
                            IF g \in Range(guild_ids) /\ ~notifications[g].loaded
                            THEN NoNotifications ELSE notifications[g]]
    /\ UNCHANGED <<now, file, mutex, next_water, pc, loc, bpc, bloc, nw_next, nw_duration, nw_loaded, config, running,
                   query, result, messages, message_mutex, nconfig, gpc, gloc, storeVars>>


\* ------------------------------------------------------------ the clock
Tick ==
    /\ now < MaxTime
    /\ now' = now + 1
    /\ UNCHANGED <<file, mutex, next_water, pc, loc, bpc, bloc, nw_next, nw_duration, nw_loaded, config, running, query, result, gateVars, storeVars>>

\* ---------------------------------------------------- the specification
\* the logs a previous run may have left: none, a blank log, a log whose
\* last row ends within the past three hours, a log with an old row only
OldLogs ==
    {AbsentFile, BlankFile("wet,dry"),
     [exists |-> TRUE, header |-> "wet,dry", rows |-> <<Row(-2, 0, NoType)>>],
     [exists |-> TRUE, header |-> "wet,dry", rows |-> <<Row(-5, -4, NoType)>>]}

\* the guild lists set_default_next_water is called with
AllGuilds == [i \in Guilds |-> i]
GuildLists == {AllGuilds} \cup {<<g>> : g \in Guilds}

NoQuery == [op |-> "none"]

\* the handlers are interchangeable: an event takes the first one that is free
FreeTasks == {t \in Tasks : pc[t] = "idle"}

Init ==
    /\ now = 0
    /\ file \in [1..NGuilds -> OldLogs]
    /\ mutex = None
    /\ next_water = [g \in Guilds |-> None]
    /\ pc = [t \in Tasks |-> "idle"]
    /\ loc = [t \in Tasks |-> IdleLoc]
    /\ bpc = "idle"
    /\ bloc = IdleBoot
    /\ nw_next = [g \in Guilds |-> None]
    /\ nw_duration = [g \in Guilds |-> None]
    /\ nw_loaded = FALSE
    /\ config = [g \in Guilds |-> TreeData]
    /\ running = [l \in Loops |-> FALSE]
    /\ query = NoQuery
    /\ result = NoQuery
    /\ GateAtRest
    /\ notifications = [g \in Guilds |-> NoKey]
    /\ nconfig = [g \in Guilds |-> DefaultNotifConfig]
    /\ loaded = FALSE
    /\ StoreAtRest

Next ==
    \/ Tick
    \/ \E g \in Guilds, text \in EmbedTexts, e \in Times :
           /\ now - MaxLag <= e /\ e <= now
           /\ FreeTasks # {}
           /\ LogTreeStart(Min(FreeTasks), g, text, e)
    \/ \E t \in Tasks : LogTreeCheck(t)
    \/ \E t \in Tasks : LogTreeAppend(t)
    \/ \E t \in Tasks : LogTreeAppendFails(t)
    \/ \E t \in Tasks : LogTreeRaised(t)
    \/ \E t \in Tasks : LogTreeUpdate(t)
    \/ \E t \in Tasks : CheckGoal(t)
    \/ \E gs \in GuildLists : BootStart(gs)
    \/ BootGuild
    \/ BootAcquire
    \/ BootRead
    \/ BootCreate
    \/ BootSet

Spec == Init /\ [][Next]_vars

\* ------------------------------------------- utils.tree_logs.TreeLogFile
\* the event categories, in the order str compares them
Categories == <<"insect", "water">>
TypeRank(c) == IndexOf(Categories, c)
\* timedelta(days=1), the default window of read_log
Day == 24 * Hour
\* filter_logs: None, or a tuple of categories
NoFilter == [none |-> TRUE, types |-> {}]
FilterLogs(types) == [none |-> FALSE, types |-> types]
\* read_log returns None when the file is not there
Missing == [ok |-> FALSE, rows |-> <<>>, missing |-> TRUE]

\* chunk['type'].isin(filter_logs)
TypeIsIn(type, filter_logs) == filter_logs.none \/ type \in filter_logs.types
\* (chunk['end'] >= start) & (chunk['start'] <= end)
InInterval(row, start, end) == row.end >= start /\ row.start <= end

\* read_log_chunked: the rows of the file as datetimes, those of the wanted
\* types that overlap [start, end], in file order; read_csv raises when the
\* columns start, end are not in the header line
ReadLogChunked(f, start, end, filter_logs) ==
    IF f.header # "start,end,type"
    THEN Raised
    ELSE LET chunk == [i \in DOMAIN f.rows |->
                           Row(ParseDate(f.rows[i].start), ParseDate(f.rows[i].end),
                               f.rows[i].type)]
             OfType(row) == TypeIsIn(row.type, filter_logs)
             InWindow(row) == InInterval(row, start, end)
         IN  Frame(SelectSeq(SelectSeq(chunk, OfType), InWindow))

StartStrictlyBeforeEnd(row) == row.start < row.end
\* df[(df['start'] <= df['end'])]
StartNotAfterEnd(row) == row.start <= row.end
\* sort_values(by=['type', 'start']): rows with equal keys keep their order
SortsBefore(a, b) ==
    \/ TypeRank(a.type) < TypeRank(b.type)
    \/ a.type = b.type /\ a.start < b.start
InsertSorted(row, df) ==
    LET k == Cardinality({i \in DOMAIN df : SortsBefore(df[i], row)})
    IN  SubSeq(df, 1, k) \o <<row>> \o SubSeq(df, k + 1, Len(df))
RECURSIVE SortValues(_)
SortValues(df) ==
    IF df = <<>> THEN <<>> ELSE InsertSorted(Head(df), SortValues(Tail(df)))

\* remove_overlaps: "only keep rows where (start) >= (previous end)", the
\* previous end being that of the last row kept
KeepsEveryRow(current_start, prev_end) == TRUE
KeepsRow(current_start, prev_end) == current_start >= prev_end
\* the previous end taken from the row before, kept or not
RECURSIVE ValidRowsLastScanned(_, _)
ValidRowsLastScanned(group, prev_end) ==
    IF group = <<>> THEN <<>>
    ELSE IF KeepsRow(Head(group).start, prev_end)
         THEN <<Head(group)>> \o ValidRowsLastScanned(Tail(group), Head(group).end)
         ELSE ValidRowsLastScanned(Tail(group), Head(group).end)
RECURSIVE ValidRows(_, _)
ValidRows(group, prev_end) ==
    IF group = <<>> THEN <<>>
    ELSE IF KeepsRow(Head(group).start, prev_end)
         THEN <<Head(group)>> \o ValidRows(Tail(group), Head(group).end)
         ELSE ValidRows(Tail(group), prev_end)
\* the first row is always valid
RemoveOverlaps(group) ==
    <<Head(group)>> \o ValidRows(Tail(group), Head(group).end)

\* df.groupby('type', group_keys=False).apply(remove_overlaps): the groups
\* in the order of their keys, a row with no type in no group
RECURSIVE GroupByApply(_, _)
GroupByApply(df, k) ==
    IF k > Len(Categories) THEN <<>>
    ELSE LET OfGroup(row) == row.type = Categories[k]
             group == SelectSeq(df, OfGroup)
         IN  (IF group = <<>> THEN <<>> ELSE RemoveOverlaps(group))
                 \o GroupByApply(df, k + 1)

\* read_log, start and end defaulting to the past day
ReadLog(f, start, end, filter_logs) ==
    IF ~f.exists THEN Missing
    ELSE LET s == IF start = None THEN now - Day ELSE start
             e == IF end = None THEN now ELSE end
             df == ReadLogChunked(f, s, e, filter_logs)
         IN  IF ~df.ok THEN Raised
             ELSE Frame(GroupByApply(SortValues(SelectSeq(df.rows, StartNotAfterEnd)), 1))

\* TreeNextWater.load_logs under its mutex: for every guild of the list
\* the end and the length of the last row read_log returns, now and zero
\* when there is no log or no row, kept by setdefault; an exception of
\* read_log ends the call and loaded is not set
RECURSIVE NextWaterLoad(_, _)
NextWaterLoad(guild_ids, cache) ==
    IF guild_ids = <<>>
    THEN [cache EXCEPT !.loaded = TRUE]
    ELSE LET g == Head(guild_ids)
             df == ReadLog(file[g], None, None, FilterLogs({"water"}))
             last_row == df.rows[Len(df.rows)]
             next == IF df.ok /\ df.rows # <<>> THEN last_row.end ELSE now
             duration == IF df.ok /\ df.rows # <<>> THEN last_row.end - last_row.start ELSE 0
         IN  IF file[g].exists /\ (tmutex[g] = NoLock \/ ~df.ok)
             THEN cache
             ELSE NextWaterLoad(Tail(guild_ids),
                                [cache EXCEPT !.next_water = SetDefault(@, g, next),
                                              !.water_duration = SetDefault(@, g, duration)])
NextWaterLoadLogs(guild_ids) ==
    LET cache == NextWaterLoad(guild_ids, [next_water |-> nw_next, water_duration |-> nw_duration,
                                          loaded |-> nw_loaded])
    IN  /\ loaded
        /\ \A g \in Range(guild_ids) : tmutex[g] \in {None, NoLock}
        /\ nw_next' = cache.next_water
        /\ nw_duration' = cache.water_duration
        /\ nw_loaded' = cache.loaded
        /\ UNCHANGED <<now, file, mutex, next_water, pc, loc, bpc, bloc, config, running,
                       query, result, gateVars, storeVars>>

\* the seconds, after Epoch0, the events of a log start and end at
ReadSecs == 0..MaxReadSec
\* the window bounds read_log is called with; None leaves the default
ReadTimes == {ParseDate(s) : s \in ReadSecs} \cup {None}
FilterChoices == {NoFilter} \cup {FilterLogs({c}) : c \in Range(Categories)}
\* the dicts append_log is called with: start and end as strings in
\* DATETIME_STRING_FORMAT, and the category
LogData == [start : ReadSecs, end : ReadSecs, type : Range(Categories)]

\* append_log: one more line at the end of the file, under mutex[guild_id]
AppendLog(g, data) ==
    /\ Len(file[g].rows) < MaxRows
    /\ file' = [file EXCEPT ![g] = AppendRow(@, Row(data.start, data.end, data.type))]
    /\ query' = [op |-> "append_log", guild |-> g, data |-> data]
    /\ result' = NoQuery
    /\ UNCHANGED <<now, mutex, next_water, pc, loc, bpc, bloc, nw_next, nw_duration, nw_loaded, config, running, gateVars, storeVars>>

\* a call of read_log and what it returns
ReadLogCall(g, start, end, filter_logs) ==
    /\ result' = [op |-> "read_log", guild |-> g, start |-> start, end |-> end,
                  filter_logs |-> filter_logs,
                  val |-> ReadLog(file[g], start, end, filter_logs)]
    /\ UNCHANGED <<now, file, mutex, next_water, pc, loc, bpc, bloc, nw_next, nw_duration, nw_loaded, config, running, query, gateVars, storeVars>>

\* the logs TreeLogFile finds when it is loaded: none (the file was removed
\* since), a blank log of its own, a blank log TreeLoggingCog created
InitRead ==
    /\ now = MaxTime
    /\ file \in [1..NGuilds -> {AbsentFile, BlankFile("start,end,type"), BlankFile("wet,dry")}]
    /\ mutex = None
    /\ next_water = [g \in Guilds |-> None]
    /\ pc = [t \in Tasks |-> "idle"]
    /\ loc = [t \in Tasks |-> IdleLoc]
    /\ bpc = "idle"
    /\ bloc = IdleBoot
    /\ nw_next = [g \in Guilds |-> None]
    /\ nw_duration = [g \in Guilds |-> None]
    /\ nw_loaded = FALSE
    /\ config = [g \in Guilds |-> TreeData]
    /\ running = [l \in Loops |-> FALSE]
    /\ query = NoQuery
    /\ result = NoQuery
    /\ GateAtRest
    /\ notifications = [g \in Guilds |-> NoKey]
    /\ nconfig = [g \in Guilds |-> DefaultNotifConfig]
    /\ loaded = FALSE
    /\ StoreAtRest

NextRead ==
    \/ \E g \in Guilds, data \in LogData : AppendLog(g, data)
    \/ \E g \in Guilds, start \in ReadTimes, end \in ReadTimes, filter_logs \in FilterChoices :
           ReadLogCall(g, start, end, filter_logs)

SpecRead == InitRead /\ [][NextRead]_vars

\* ------------------------------- read_log over windows within the log
\* water events over MaxWideSec seconds, and windows that start and end
\* at any of these seconds
WideSecs == 0..MaxWideSec
WideData == [start : WideSecs, end : WideSecs, type : {"water"}]
WideTimes == {ParseDate(s) : s \in WideSecs}
NextWindow ==
    \/ \E g \in Guilds, data \in WideData : AppendLog(g, data)
    \/ \E g \in Guilds, start \in WideTimes, end \in WideTimes :
           start <= end /\ ReadLogCall(g, start, end, FilterLogs({"water"}))

SpecWindow == InitRead /\ [][NextWindow]_vars

\* ------------------------------------ TreeLoggingCog.calc_up_down
\* a missing value of a column (NaT, NaN)
NaN == None
\* the tuple calc_up_down returns, both durations in ticks; and the call
\* that raises instead
UpDown(uptime, downtime) == [ok |-> TRUE, uptime |-> uptime, downtime |-> downtime]
CalcRaised == [ok |-> FALSE, uptime |-> 0, downtime |-> 0]

RECURSIVE SumSeq(_)
SumSeq(col) == IF col = <<>> THEN 0 ELSE Head(col) + SumSeq(Tail(col))

\* df.loc[df['wet'] <= cutoff, 'wet'] = cutoff
\* df.loc[df['dry'] >= now, 'dry'] = now
Clamp(df, cutoff, n) ==
    [i \in DOMAIN df |->
        [wet |-> IF df[i].wet <= cutoff THEN cutoff ELSE df[i].wet,
         dry |-> IF df[i].dry >= n THEN n ELSE df[i].dry]]
\* df['uptime'] = df['dry'] - df['wet']
\* df['downtime'] = df['wet'] - df['dry'].shift(1): the first row has no
\* row before it
UpDownColumns(df) ==
    [i \in DOMAIN df |->
        [wet |-> df[i].wet, dry |-> df[i].dry,
         uptime |-> df[i].dry - df[i].wet,
         downtime |-> IF i = 1 THEN NaN ELSE df[i].wet - df[i - 1].dry]]
\* column < max_duration, max_duration in seconds: False on a missing value
LessThan(value, max_duration) == value # NaN /\ value < max_duration * Res
\* df[(df['downtime'] < max_duration) & (df['uptime'] < max_duration)]
RemoveOutliers(df, max_duration) ==
    LET Keeps(row) == LessThan(row.downtime, max_duration) /\ LessThan(row.uptime, max_duration)
    IN  SelectSeq(df, Keeps)
\* the sums, and the time since the last dry of the rows that are left
SumUpDown(df, n) ==
    LET uptime == SumSeq([i \in DOMAIN df |-> df[i].uptime])
        downtime == SumSeq([i \in DOMAIN df |-> df[i].downtime])
        last_dry == df[Len(df)].dry
    IN  UpDown(uptime,
               IF df # <<>> /\ last_dry < n THEN downtime + (n - last_dry) ELSE downtime)
\* calc_up_down from the clamping on
Aggregate(df, cutoff, n, max_duration) ==
    SumUpDown(RemoveOutliers(UpDownColumns(Clamp(df, cutoff, n)), max_duration), n)

\* what calc_up_down may do: fetch_logs returns None for a missing file and
\* df.loc raises; read_csv raises on a file with other columns; of a file
\* with the header line only the columns may come out without a datetime
\* type, and then .dt raises
CalcUpDown(f, n, hours, max_duration) ==
    LET cutoff == n - hours * Hour
        df == FetchLogs(f, cutoff, n)
    IN  IF ~f.exists \/ ~df.ok THEN {CalcRaised}
        ELSE IF f.rows = <<>> THEN {CalcRaised, UpDown(0, 0)}
        ELSE {Aggregate(df.rows, cutoff, n, max_duration)}

\* a call of calc_up_down and what comes of it
CalcUpDownCall(g, hours, max_duration) ==
    /\ \E val \in CalcUpDown(file[g], now, hours, max_duration) :
           result' = [op |-> "calc_up_down", guild |-> g, now |-> now, hours |-> hours,
                      outlier_duration |-> max_duration, val |-> val]
    /\ UNCHANGED <<now, file, mutex, next_water, pc, loc, bpc, bloc, nw_next, nw_duration, nw_loaded, config, running, query, gateVars, storeVars>>

\* the seconds, after Epoch0, the waterings of a log start and end at
AggSecs == 0..MaxAggSec
\* the logs log_tree leaves behind: every row with wet <= dry, every dry
\* after the dry of the row before
RECURSIVE WateringLogs(_)
WateringLogs(n) ==
    IF n = 0 THEN {<<>>}
    ELSE LET shorter == WateringLogs(n - 1)
         IN  shorter \cup
             {Append(rows, Row(wet, dry, NoType)) :
                 rows \in {r \in shorter : Len(r) = n - 1},
                 wet \in AggSecs, dry \in AggSecs}
LogTreeLogs ==
    {rows \in WateringLogs(MaxRows) :
        /\ \A i \in DOMAIN rows : rows[i].start <= rows[i].end
        /\ \A i \in DOMAIN rows : i > 1 => rows[i - 1].end < rows[i].end}

InitAgg ==
    /\ now \in {ParseDate(MaxAggSec) - 1, ParseDate(MaxAggSec)}
    /\ file \in [1..NGuilds -> {AbsentFile} \cup
                   {[exists |-> TRUE, header |-> "wet,dry", rows |-> rows] : rows \in LogTreeLogs}]
    /\ mutex = None
    /\ next_water = [g \in Guilds |-> None]
    /\ pc = [t \in Tasks |-> "idle"]
    /\ loc = [t \in Tasks |-> IdleLoc]
    /\ bpc = "idle"
    /\ bloc = IdleBoot
    /\ nw_next = [g \in Guilds |-> None]
    /\ nw_duration = [g \in Guilds |-> None]
    /\ nw_loaded = FALSE
    /\ config = [g \in Guilds |-> TreeData]
    /\ running = [l \in Loops |-> FALSE]
    /\ query = NoQuery
    /\ result = NoQuery
    /\ GateAtRest
    /\ notifications = [g \in Guilds |-> NoKey]
    /\ nconfig = [g \in Guilds |-> DefaultNotifConfig]
    /\ loaded = FALSE
    /\ StoreAtRest

NextAgg ==
    \E g \in Guilds, hours \in 1..MaxHours, max_duration \in 1..MaxOutlier :
        CalcUpDownCall(g, hours, max_duration)

SpecAgg == InitAgg /\ [][NextAgg]_vars

\* ---------------------------------------- the notification gate alone
\* TreeLogFile has loaded the logs; every guild has its config; the clock
\* stands still
InitGate ==
    /\ now = 0
    /\ file = [g \in 1..NGuilds |-> BlankFile("start,end,type")]
    /\ mutex = None
    /\ next_water = [g \in Guilds |-> None]
    /\ pc = [t \in Tasks |-> "idle"]
    /\ loc = [t \in Tasks |-> IdleLoc]
    /\ bpc = "idle"
    /\ bloc = IdleBoot
    /\ nw_next = [g \in Guilds |-> None]
    /\ nw_duration = [g \in Guilds |-> None]
    /\ nw_loaded = FALSE
    /\ config = [g \in Guilds |-> TreeData]
    /\ running = [l \in Loops |-> FALSE]
    /\ query = NoQuery
    /\ result = NoQuery
    /\ GateAtRest
    /\ notifications = [g \in Guilds |-> NoKey]
    /\ nconfig \in [Guilds -> NotifConfigs]
    /\ loaded = TRUE
    /\ StoreLoaded

NextGate ==
    \/ \E gs \in GuildLists : LoadGuildNotifications(gs)
    \/ \E t \in GateTasks, g \in Guilds, buttons \in ButtonSets : GateStart(t, g, buttons)
    \/ \E t \in GateTasks : SendAcquire(t)
    \/ \E t \in GateTasks, created_at \in Times : SendReturns(t, created_at)
    \/ \E t \in GateTasks : SendFails(t)
    \/ \E t \in GateTasks, done \in BOOLEAN : TempDeleteReturns(t, done)
    \/ \E t \in GateTasks, done \in BOOLEAN : DeleteReturns(t, done)
    \/ \E k \in Callers : AppendLogAcquire(k)
    \/ \E k \in Callers : AppendLogWrite(k)
    \/ \E t \in GateTasks : AppendReturns(t)

SpecGate == InitGate /\ [][NextGate]_vars

\* ------------------------------------ log_tree in more than one guild
\* the bot is in MaxGuilds guilds; set_default_next_water has run at
\* start-up on their blank logs; the clock stands still and the disk
\* takes every write
InitGuilds ==
    /\ now = 0
    /\ file = [g \in 1..MaxGuilds |-> BlankFile("wet,dry")]
    /\ mutex = None
    /\ next_water = [g \in Guilds |-> now]
    /\ pc = [t \in Tasks |-> "idle"]
    /\ loc = [t \in Tasks |-> IdleLoc]
    /\ bpc = "done"
    /\ bloc = IdleBoot
    /\ nw_next = [g \in Guilds |-> None]
    /\ nw_duration = [g \in Guilds |-> None]
    /\ nw_loaded = FALSE
    /\ config = [g \in Guilds |-> TreeData]
    /\ running = [l \in Loops |-> FALSE]
    /\ query = NoQuery
    /\ result = NoQuery
    /\ GateAtRest
    /\ notifications = [g \in Guilds |-> NoKey]
    /\ nconfig = [g \in Guilds |-> DefaultNotifConfig]
    /\ loaded = FALSE
    /\ StoreAtRest

NextGuilds ==
    \/ \E g \in Guilds, text \in EmbedTexts :
           /\ FreeTasks # {}
           /\ LogTreeStart(Min(FreeTasks), g, text, now)
    \/ \E t \in Tasks : LogTreeCheck(t)
    \/ \E t \in Tasks : LogTreeAppend(t)
    \/ \E t \in Tasks : LogTreeUpdate(t)
    \/ \E t \in Tasks : CheckGoal(t)

SpecGuilds == InitGuilds /\ [][NextGuilds]_vars

\* ------------------------- both writers of data/<guild_id>.csv at work
\* log_tree and the gate's log_button_notification on the logs of the
\* same guilds, after start-up: set_default_next_water has written the
\* blank logs, TreeLogFile has loaded, the guilds have their notification
\* entries; insect notifications are on and stay in the channel;
\* the sends and the writes succeed
InitLog ==
    /\ now = 0
    /\ file = [g \in 1..NGuilds |-> BlankFile("wet,dry")]
    /\ mutex = None
    /\ next_water = [g \in Guilds |-> now]
    /\ pc = [t \in Tasks |-> "idle"]
    /\ loc = [t \in Tasks |-> IdleLoc]
    /\ bpc = "done"
    /\ bloc = IdleBoot
    /\ nw_next = [g \in Guilds |-> None]
    /\ nw_duration = [g \in Guilds |-> None]
    /\ nw_loaded = FALSE
    /\ config = [g \in Guilds |-> TreeData]
    /\ running = [l \in Loops |-> FALSE]
    /\ query = NoQuery
    /\ result = NoQuery
    /\ GateAtRest
    /\ notifications = [g \in Guilds |-> NoNotifications]
    /\ nconfig = [g \in Guilds |-> NotifConfig(TRUE, TRUE, FALSE, FALSE)]
    /\ loaded = TRUE
    /\ StoreLoaded

NextLog ==
    \/ Tick
    \/ \E g \in Guilds, text \in EmbedTexts : LogTreeStart(1, g, text, now)
    \/ \E t \in Tasks : LogTreeCheck(t)
    \/ \E t \in Tasks : LogTreeAppend(t)
    \/ \E t \in Tasks : LogTreeUpdate(t)
    \/ \E t \in Tasks : CheckGoal(t)
    \/ \E g \in Guilds, buttons \in ButtonSets : GateStart(1, g, buttons)
    \/ \E t \in GateTasks, created_at \in Times : SendReturns(t, created_at)
    \/ \E t \in GateTasks, done \in BOOLEAN : DeleteReturns(t, done)
    \/ \E k \in Callers : AppendLogWrite(k)
    \/ \E t \in GateTasks : AppendReturns(t)

SpecLog == InitLog /\ [][NextLog]_vars

\* ------------------------------------- the water notification at work
\* after start-up: the reconciler has its cache and the blank log it has
\* written, unless TreeLogFile.load_logs wrote the blank log first;
\* TreeLogFile has loaded, the guilds have their notification entries, a
\* channel and water notifications on; the loop of
\* process_water_notification runs
WaterLogs == {BlankFile("wet,dry"), BlankFile("start,end,type")}
InitWater ==
    /\ now = 0
    /\ file \in [1..NGuilds -> WaterLogs]
    /\ mutex = None
    /\ next_water = [g \in Guilds |-> now]
    /\ pc = [t \in Tasks |-> "idle"]
    /\ loc = [t \in Tasks |-> IdleLoc]
    /\ bpc = "done"
    /\ bloc = IdleBoot
    /\ nw_next = [g \in Guilds |-> None]
    /\ nw_duration = [g \in Guilds |-> None]
    /\ nw_loaded = FALSE
    /\ config = [g \in Guilds |-> TreeData]
    /\ running = [l \in Loops |-> l = "process_water_notification"]
    /\ query = NoQuery
    /\ result = NoQuery
    /\ GateAtRest
    /\ notifications = [g \in Guilds |-> NoNotifications]
    /\ nconfig \in [Guilds -> {WithWater(NotifConfig(TRUE, FALSE, FALSE, tmp)) : tmp \in BOOLEAN}]
    /\ loaded = TRUE
    /\ StoreLoaded

\* the steps of the loop and of its requests
WaterStep ==
    \/ ProcessWaterNotification(AllGuilds)
    \/ FetchGuildReturns(WaterLoop)
    \/ \E done \in BOOLEAN : TempDeleteReturns(WaterLoop, done)
WaterSent == \E created_at \in Times : SendReturns(WaterLoop, created_at)

NextWater ==
    \/ Tick
    \/ \E g \in Guilds, text \in EmbedTexts : LogTreeStart(1, g, text, now)
    \/ \E t \in Tasks : LogTreeCheck(t)
    \/ \E t \in Tasks : LogTreeAppend(t)
    \/ \E t \in Tasks : LogTreeUpdate(t)
    \/ \E t \in Tasks : CheckGoal(t)
    \/ NextWaterLoadLogs(AllGuilds)
    \/ WaterStep
    \/ WaterSent
    \/ SendFails(WaterLoop)

SpecWater == InitWater /\ [][NextWater]_vars

\* tasks.loop(seconds=1) starts the next iteration a second after the
\* last, the event loop resumes what can go on, the clock goes on, the
\* channel lets a send through in the end, and whoever is to call
\* TreeNextWater.load_logs does
FairWater ==
    /\ SpecWater
    /\ WF_vars(Tick)
    /\ WF_vars(WaterStep)
    /\ SF_vars(WaterSent)
    /\ WF_vars(NextWaterLoadLogs(AllGuilds))

\* the event loop also resumes a handler of log_tree that can go on
LogTreeStep ==
    \E t \in Tasks : LogTreeCheck(t) \/ LogTreeAppend(t) \/ LogTreeUpdate(t) \/ CheckGoal(t)
FairTasks == FairWater /\ WF_vars(LogTreeStep)

\* ------------------------------------------- check_goal with a goal set
\* the bootstrap is over, the tree and a goal that is not reached are
\* configured, and tree updates arrive
InitGoal ==
    /\ now = 0
    /\ file = [g \in 1..NGuilds |-> BlankFile("wet,dry")]
    /\ mutex = None
    /\ next_water = [g \in Guilds |-> now]
    /\ pc = [t \in Tasks |-> "idle"]
    /\ loc = [t \in Tasks |-> IdleLoc]
    /\ bpc = "done"
    /\ bloc = IdleBoot
    /\ nw_next = [g \in Guilds |-> None]
    /\ nw_duration = [g \in Guilds |-> None]
    /\ nw_loaded = FALSE
    /\ config = [g \in Guilds |-> GoalData]
    /\ running = [l \in Loops |-> FALSE]
    /\ query = NoQuery
    /\ result = NoQuery
    /\ GateAtRest
    /\ notifications = [g \in Guilds |-> NoNotifications]
    /\ nconfig = [g \in Guilds |-> DefaultNotifConfig]
    /\ loaded = FALSE
    /\ StoreAtRest

NextGoal ==
    \/ Tick
    \/ \E g \in Guilds, text \in EmbedTexts :
           /\ FreeTasks # {}
           /\ LogTreeStart(Min(FreeTasks), g, text, now)
    \/ \E t \in Tasks : LogTreeCheck(t)
    \/ \E t \in Tasks : LogTreeAppend(t)
    \/ \E t \in Tasks : LogTreeUpdate(t)
    \/ \E t \in Tasks : CheckGoal(t)
    \/ \E t \in Tasks, created_at \in Times : GoalSendReturns(t, created_at)
    \/ \E t \in Tasks : GoalSendFails(t)
    \/ \E t \in Tasks, ok \in BOOLEAN : GoalSaved(t, ok)

SpecGoal == InitGoal /\ [][NextGoal]_vars

\* ------------------------- an update that overtakes a send in flight
\* insect and fruit notifications are on; an update with the bug net
\* finds nothing sent, and while its send is under way an update with
\* the basket and no bug net arrives
BugNet == {"droplet", "refresh", "bugnet"}
Basket == {"basket"}
InitRace ==
    /\ now = 0
    /\ file = [g \in 1..NGuilds |-> BlankFile("start,end,type")]
    /\ mutex = None
    /\ next_water = [g \in Guilds |-> None]
    /\ pc = [t \in Tasks |-> "idle"]
    /\ loc = [t \in Tasks |-> IdleLoc]
    /\ bpc = "idle"
    /\ bloc = IdleBoot
    /\ nw_next = [g \in Guilds |-> None]
    /\ nw_duration = [g \in Guilds |-> None]
    /\ nw_loaded = FALSE
    /\ config = [g \in Guilds |-> TreeData]
    /\ running = [l \in Loops |-> FALSE]
    /\ query = NoQuery
    /\ result = NoQuery
    /\ GateAtRest
    /\ notifications = [g \in Guilds |-> NoNotifications]
    /\ nconfig \in [Guilds -> {NotifConfig(TRUE, TRUE, TRUE, tmp) : tmp \in BOOLEAN}]
    /\ loaded = TRUE
    /\ StoreLoaded

FirstUpdate(g) ==
    /\ messages = <<>>
    /\ \A t \in GateTasks : gpc[t] = "idle"
    /\ GateStart(1, g, BugNet)
LaterUpdate(g) ==
    /\ gpc[1] = "sending" /\ gloc[1].guild = g /\ gloc[1].category = "insect"
    /\ GateStart(2, g, Basket)

NextRace ==
    \/ Tick
    \/ \E g \in Guilds : FirstUpdate(g)
    \/ \E g \in Guilds : LaterUpdate(g)
    \/ \E t \in GateTasks : SendAcquire(t)
    \/ \E t \in GateTasks, created_at \in Times : SendReturns(t, created_at)
    \/ \E t \in GateTasks : SendFails(t)
    \/ \E t \in GateTasks, done \in BOOLEAN : TempDeleteReturns(t, done)

SpecRace == InitRace /\ [][NextRace]_vars

\* ------------------------------- the handlers, the loops and the config
\* the bot has been in its guilds for a while: the config of a guild is
\* as set_default_data left it or has a channel, a tree, a status
\* channel; the flags of the notifications are set, with a channel or
\* without; a notification of the insect sent at the start may still be
\* cached; TreeNextWater was loaded at the start; the loops have not been
\* started.  Updates arrive at both cogs and the loops run
LoopConfigs ==
    {WithWater(NotifConfig(FALSE, TRUE, FALSE, FALSE)),
     WithWater(NotifConfig(TRUE, TRUE, FALSE, FALSE))}
OldMessage(g) == Message(g, "insect", 0)
Cached == [NoNotifications EXCEPT !.insect = 1]
InitLoops ==
    /\ now = MaxTime
    /\ file = [g \in 1..NGuilds |-> BlankFile("start,end,type")]
    /\ mutex = None
    /\ next_water = [g \in Guilds |-> now]
    /\ pc = [t \in Tasks |-> "idle"]
    /\ loc = [t \in Tasks |-> IdleLoc]
    /\ bpc = "done"
    /\ bloc = IdleBoot
    /\ nw_next = [g \in Guilds |-> 0]
    /\ nw_duration = [g \in Guilds |-> 0]
    /\ nw_loaded = TRUE
    /\ config \in [Guilds -> {DefaultData, ChannelData, StatusData}]
    /\ running = [l \in Loops |-> FALSE]
    /\ query = NoQuery
    /\ result = NoQuery
    /\ message_mutex = None
    /\ gpc = [t \in GateTasks \cup {WaterLoop} |-> "idle"]
    /\ gloc = [t \in GateTasks \cup {WaterLoop} |-> IdleGate]
    /\ notifications \in [Guilds -> {NoKey, NoNotifications, Cached}]
    /\ messages = IF notifications[1] = Cached THEN <<OldMessage(1)>> ELSE <<>>
    /\ nconfig \in [Guilds -> LoopConfigs]
    /\ loaded = TRUE
    /\ StoreLoaded

NextLoops ==
    \/ LoadGuildNotifications(AllGuilds)
    \/ \E g \in Guilds, text \in EmbedTexts : LogTreeStart(1, g, text, now)
    \/ LogTreeCheck(1)
    \/ LogTreeAppend(1)
    \/ LogTreeAppendFails(1)
    \/ LogTreeRaised(1)
    \/ LogTreeUpdate(1)
    \/ CheckGoal(1)
    \/ \E g \in Guilds, buttons \in ButtonSets : GateStart(1, g, buttons)
    \/ SendAcquire(1)
    \/ \E t \in {1, WaterLoop} : SendReturns(t, now)
    \/ \E t \in {1, WaterLoop} : SendFails(t)
    \/ \E done \in BOOLEAN : DeleteReturns(1, done)
    \/ AppendLogWrite(1)
    \/ AppendReturns(1)
    \/ ProcessWaterNotification(AllGuilds)
    \/ \E failing \in Guilds \cup {0}, caught \in BOOLEAN :
           RemoveNotifications(AllGuilds, failing, caught)
    \/ \E valid_day \in BOOLEAN : StatusMessage(AllGuilds, valid_day)

SpecLoops == InitLoops /\ [][NextLoops]_vars

\* --------------------------------- TreeLogFile from its construction on
\* the bot is in MaxGuilds guilds, some with a log from an earlier run;
\* load_logs is called with all of them or with one; the callers append
\* the same event
StoreLists == {[i \in Guilds |-> i]} \cup {<<g>> : g \in Guilds}
StoreEvent == Row(0, 0, "insect")

InitStore ==
    /\ now = 0
    /\ file \in [1..MaxGuilds -> {AbsentFile, BlankFile("start,end,type")}]
    /\ mutex = None
    /\ next_water = [g \in Guilds |-> None]
    /\ pc = [t \in Tasks |-> "idle"]
    /\ loc = [t \in Tasks |-> IdleLoc]
    /\ bpc = "idle"
    /\ bloc = IdleBoot
    /\ nw_next = [g \in Guilds |-> None]
    /\ nw_duration = [g \in Guilds |-> None]
    /\ nw_loaded = FALSE
    /\ config = [g \in Guilds |-> TreeData]
    /\ running = [l \in Loops |-> FALSE]
    /\ query = NoQuery
    /\ result = NoQuery
    /\ GateAtRest
    /\ notifications = [g \in Guilds |-> NoKey]
    /\ nconfig = [g \in Guilds |-> DefaultNotifConfig]
    /\ loaded = FALSE
    /\ StoreAtRest

NextStore ==
    \/ \E gs \in StoreLists : LoadLogsStart(gs)
    \/ LoadLogsCreate
    \/ \E k \in Callers, g \in Guilds :
           /\ Len(file[g].rows) < MaxRows
           /\ AppendLogStart(k, g, StoreEvent)
    \/ \E k \in Callers : AppendLogAcquire(k)
    \/ \E k \in Callers : AppendLogWrite(k)
    \/ \E k \in Callers : AppendLogDone(k)
    \/ \E k \in Callers : AppendLogRaised(k)

SpecStore == InitStore /\ [][NextStore]_vars

\* ============================================================== claims
\* the handlers that are past the check of log_tree for guild g
PastCheck(g) == {t \in Tasks : pc[t] \in {"append", "update"} /\ loc[t].guild = g}

\* C1: however the log_tree handlers of one guild interleave, a given
\* end_candidate is appended to the guild's log at most once: no two rows of
\* a log carry the same end, and no two handlers are past the check at once.
C1_AtMostOneRow ==
    \A g \in Guilds :
        /\ Cardinality(PastCheck(g)) <= 1
        /\ \A i, j \in DOMAIN file[g].rows :
               i < j => file[g].rows[i].end # file[g].rows[j].end

\* C1 witness: a handler has appended its row and still holds the mutex while
\* a second handler of the same guild waits with the same end_candidate,
\* which is after its own edited_at.
C1_Witness ==
    \E t, u \in Tasks :
        /\ t # u
        /\ pc[t] = "update" /\ pc[u] = "lock"
        /\ loc[t].guild = loc[u].guild
        /\ loc[t].timestamp = loc[u].timestamp
        /\ loc[u].timestamp > loc[u].edited_at

\* the step in which handler t leaves the check of log_tree
LeavesCheck(t) == pc[t] = "lock" /\ pc'[t] # "lock"

\* C2: a signal whose end_candidate is not after the cached next_water is
\* dropped, whatever its edited_at: the handler returns, and the log and the
\* cache stay as they are.
C2_StaleIsNoOp ==
    [][\A t \in Tasks :
          (/\ LeavesCheck(t)
           /\ next_water[loc[t].guild] # None
           /\ loc[t].timestamp <= next_water[loc[t].guild])
          => (pc'[t] = "goal" /\ file' = file /\ next_water' = next_water)]_vars

\* C2 witness: a log_tree has just returned, rejected by the cached
\* next_water alone
C2_Witness ==
    \E t \in Tasks : pc[t] = "goal" /\ loc[t].outcome = "rejected: not after next_water"

\* C3: a signal whose end_candidate is not after its edited_at is dropped:
\* the handler returns, nothing is appended and the cache is unchanged.
C3_NotAfterEditIsNoOp ==
    [][\A t \in Tasks :
          (LeavesCheck(t) /\ loc[t].timestamp <= loc[t].edited_at)
          => (pc'[t] = "goal" /\ file' = file /\ next_water' = next_water)]_vars

\* C3 witness: a log_tree has just returned, rejected because its
\* timestamp, extracted from the embed text, was not after edited_at
C3_Witness ==
    \E t \in Tasks : pc[t] = "goal" /\ loc[t].outcome = "rejected: not after edited_at"

\* the last row of a log
LastRow(g) == file[g].rows[Len(file[g].rows)]

\* C4: when an accepted signal has end_candidate - signal_time below the
\* cached last_duration (the length of the event the cached next_water was
\* taken from), the appended event starts at end_candidate - last_duration.
\* Read where the row is written and the cache still holds the old value.
C4_ClampedStart ==
    \A t \in Tasks :
        pc[t] = "update" =>
            LET rows == file[loc[t].guild].rows
                n == Len(rows)
            IN  (/\ n >= 2
                 /\ ParseDate(rows[n - 1].end) = next_water[loc[t].guild]
                 /\ loc[t].timestamp - loc[t].edited_at
                        < ParseDate(rows[n - 1].end) - ParseDate(rows[n - 1].start))
                => ParseDate(rows[n].start)
                       = loc[t].timestamp
                             - (ParseDate(rows[n - 1].end) - ParseDate(rows[n - 1].start))

\* C5: when log_tree has accepted a signal, the cached next_time is the end
\* of the appended event and the cached last_duration is that end minus the
\* appended event's start.
C5_CacheFollowsLog ==
    [][\A t \in Tasks :
          (pc[t] = "update" /\ pc'[t] = "goal")
          => /\ next_water'[loc[t].guild] = ParseDate(LastRow(loc[t].guild).end)
             /\ nw_duration'[loc[t].guild]
                    = ParseDate(LastRow(loc[t].guild).end)
                          - ParseDate(LastRow(loc[t].guild).start)]_vars

\* the frame the last read_log returned, when it returned one
ReadReturned == result.op = "read_log" /\ result.val.ok

\* C6: whatever the log holds and whatever the window, the rows read_log
\* returns are in ascending order of (category, start), and no row starts
\* before the end of a row of its category that comes earlier in the result
C6_SortedNoOverlap ==
    ReadReturned =>
        LET rows == result.val.rows
        IN  \A i, j \in DOMAIN rows :
                i < j => /\ ~SortsBefore(rows[j], rows[i])
                         /\ rows[i].type = rows[j].type => rows[j].start >= rows[i].end

\* C6 witness: read_log returned two rows of one category out of a log of
\* three well-formed rows of that category, all of them within the window:
\* the third overlapped
C6_Witness ==
    /\ ReadReturned
    /\ result.start = None /\ result.end = None
    /\ Len(result.val.rows) = 2
    /\ Len(file[result.guild].rows) = 3
    /\ \A i \in DOMAIN file[result.guild].rows :
           /\ file[result.guild].rows[i].type = "water"
           /\ file[result.guild].rows[i].start <= file[result.guild].rows[i].end
           /\ ParseDate(file[result.guild].rows[i].start) <= now

\* the row the last append_log wrote, as read_log reads it back
AppendedRow == Row(ParseDate(query.data.start), ParseDate(query.data.end), query.data.type)
\* the window of the last read_log, its defaults resolved
WindowStart == IF result.start = None THEN now - Day ELSE result.start
WindowEnd == IF result.end = None THEN now ELSE result.end
\* a row the log held before the last append, of the category of the
\* appended event, shares a moment with it
EarlierRowOverlaps ==
    \E i \in 1..(Len(file[query.guild].rows) - 1) :
        LET row == file[query.guild].rows[i]
        IN  /\ row.type = query.data.type
            /\ row.start <= row.end
            /\ row.start <= query.data.end
            /\ query.data.start <= row.end
\* an event (start <= end) was appended to a log with the header
\* start,end,type and the log was then read, with a window that contains
\* the event and a filter that lets its category through
AppendedThenRead ==
    /\ query.op = "append_log"
    /\ result.op = "read_log"
    /\ result.guild = query.guild
    /\ file[query.guild].header = "start,end,type"
    /\ query.data.start <= query.data.end
    /\ WindowStart <= AppendedRow.start
    /\ AppendedRow.end <= WindowEnd
    /\ TypeIsIn(query.data.type, result.filter_logs)

Cutoff == result.now - result.hours * Hour
Slice == FetchLogs(file[result.guild], Cutoff, result.now)
Calculated == result.op = "calc_up_down"

\* C8: over a window of length L whose filtered slice of the log is empty
\* (the log has rows, none of them within the window), calc_up_down returns
\* uptime 0 and downtime L
C8_EmptySliceAllDown ==
    (/\ Calculated
     /\ file[result.guild].rows # <<>>
     /\ Slice.ok
     /\ Slice.rows = <<>>) =>
        result.val = UpDown(0, result.now - Cutoff)

\* C9: an event that starts before the window and ends after it, the only
\* one in the slice, makes the returned uptime the length of the window
\* (a window shorter than the outlier threshold)
C9_SpanningIsWindowLength ==
    (/\ Calculated
     /\ Slice.ok
     /\ Len(Slice.rows) = 1
     /\ result.now - Cutoff < result.outlier_duration * Res
     /\ Slice.rows[1].wet < Cutoff
     /\ Slice.rows[1].dry > result.now) =>
        (result.val.ok /\ result.val.uptime = result.now - Cutoff)

\* the clamped slice, and what is left of it without the events whose
\* clamped uptime reaches the outlier threshold
Clamped == Clamp(Slice.rows, Cutoff, result.now)
IsOutlier(row) == row.dry - row.wet >= result.outlier_duration * Res
NotOutlier(row) == ~IsOutlier(row)

\* C10: when an event of the slice has a clamped uptime at or over the
\* outlier threshold, calc_up_down returns what it would return of the slice
\* without such events: they add nothing to the uptime, and no gap is
\* measured from the end of one
C10_OutlierAsIfAbsent ==
    (/\ Calculated
     /\ Slice.ok
     /\ \E i \in DOMAIN Clamped : IsOutlier(Clamped[i])) =>
        result.val = SumUpDown(RemoveOutliers(UpDownColumns(SelectSeq(Clamped, NotOutlier)),
                                              result.outlier_duration),
                               result.now)

\* the messages of a guild and category that are in the channel
Live(g, category) ==
    {m \in DOMAIN messages :
        /\ messages[m].guild = g
        /\ messages[m].category = category
        /\ ~messages[m].deleted}
\* handler t ends the delete request of its temporary notification, and
\* with it send_notification
TempDeleteOver(t) == gpc[t] = "temp_delete" /\ gpc'[t] # "temp_delete"
\* handler t issues a send request
IssuesSend(t) ==
    /\ gpc'[t] = "sending"
    /\ gpc[t] # "sending" \/ gloc[t].category # gloc'[t].category
\* the send request of handler t ends
SendOver(t) ==
    /\ gpc[t] = "sending"
    /\ gpc'[t] # "sending" \/ gloc[t].category # gloc'[t].category

C12_AtMostOneLive ==
    \A g \in Guilds, category \in Range(ButtonCategories) :
        Cardinality(Live(g, category)) <= 1

\* C13: of the concurrent evaluations that find the condition true, a send
\* request is issued only with the lock free and the stored state absent,
\* never while another request is under way; a handler that gets the lock
\* and finds a notification stored issues none
C13_OneSend ==
    [][\A t \in GateTasks :
          /\ IssuesSend(t) =>
                /\ notifications[gloc'[t].guild][gloc'[t].category] = None
                /\ message_mutex \in {None, t}
                /\ message_mutex' = t
                /\ \A u \in GateTasks \ {t} : gpc'[u] # "sending"
          /\ (gpc[t] = "send_lock" /\ gpc'[t] # "send_lock"
                /\ notifications[gloc[t].guild][gloc[t].category] # None) =>
                /\ messages' = messages
                /\ notifications' = notifications
                /\ ~(gpc'[t] = "sending" /\ gloc'[t].category = gloc[t].category)]_vars

\* C13 witness: two evaluations found the condition true with the state
\* absent; one has sent, the other still waits for the lock and will find
\* the notification stored
C13_Witness ==
    \E t \in GateTasks :
        /\ gpc[t] = "send_lock"
        /\ notifications[gloc[t].guild][gloc[t].category] # None
        /\ ~TreeHasInsect({}, notifications[gloc[t].guild][gloc[t].category])
               \/ gloc[t].category = "fruit" \/ "bugnet" \in gloc[t].buttons
        /\ message_mutex = None

\* C20: when the send request fails, the stored state stays absent, the
\* lock is released and the handler goes on as after a send (no exception);
\* and an evaluation that finds the condition true with the state absent and
\* the lock free issues a send request
C20_FailedSendLeavesAbsent ==
    [][\A t \in GateTasks :
          /\ (SendOver(t) /\ messages' = messages) =>
                /\ notifications' = notifications
                /\ notifications'[gloc[t].guild][gloc[t].category] = None
                /\ message_mutex' = None \/ IssuesSend(t)
                /\ gpc'[t] \in {"idle", "sending", "send_lock", "delete"}
          /\ (/\ gpc[t] = "idle" /\ gpc'[t] # "idle"
              /\ gloc'[t].config.insect
              /\ "bugnet" \in gloc'[t].buttons
              /\ notifications[gloc'[t].guild]["insect"] = None
              /\ message_mutex = None) =>
                (gpc'[t] = "sending" /\ gloc'[t].category = "insect")]_vars

\* C20 witness: the send request of a handler for insect failed, and while
\* that handler is busy with fruit another one has a new send request for
\* insect under way
C20_Witness ==
    \E t, u \in GateTasks :
        /\ gloc[t].returned = "None"
        /\ gloc[t].category = "fruit"
        /\ gpc[u] = "sending"
        /\ gloc[u].category = "insect"
        /\ gloc[u].guild = gloc[t].guild

\* ----------------------------------------------------- the log on disk
\* the rows of f are still in g, unchanged and where they were
KeepsRows(f, g) ==
    /\ Len(g.rows) >= Len(f.rows)
    /\ SubSeq(g.rows, 1, Len(f.rows)) = f.rows

\* C16: the log is append-only: no step of any operation, bootstrap
\* included, removes or rewrites a row that is in a guild's log
C16_AppendOnly ==
    [][\A g \in Guilds : KeepsRows(file[g], file'[g])]_vars

\* C18: log_tree takes its accept/reject decision for a guild only once
\* set_default_next_water has seeded next_water for that guild
C18_DecisionAfterBootstrap ==
    [][\A t \in Tasks : LeavesCheck(t) => next_water[loc[t].guild] # None]_vars

\* set_default_next_water stores the value for a guild with no cached one
Seeds(g) ==
    /\ bpc \in {"read done", "create done"}
    /\ bloc.val.ok
    /\ Head(bloc.queue) = g
    /\ next_water[g] = None
    /\ bpc' # bpc

\* C19: bootstrap of a guild with no cached value sets next_water to the
\* end of the last event of its log, whatever its age, and to the time of
\* the bootstrap when the log has no event
C19_SeededFromLastEvent ==
    [][\A g \in Guilds :
          Seeds(g) =>
              next_water'[g] = IF file[g].rows # <<>>
                               THEN ParseDate(LastRow(g).end)
                               ELSE bloc.now]_vars

\* C15: a step in progress for one guild never delays a step for another:
\* a log_tree that waits for the lock waits for a holder that works on
\* the same guild
C15_NoCrossGuildWait ==
    \A t \in Tasks :
        (pc[t] = "lock" /\ mutex \in Tasks) => loc[mutex].guild = loc[t].guild

\* the operations that have data/<g>.csv open: a log_tree in its write, a
\* set_default_next_water in its read or its write, an append_log in its write
Accessing(g) ==
    {<<"log_tree", t>> : t \in {u \in Tasks : pc[u] = "append" /\ loc[u].guild = g}}
    \cup {<<"set_default_next_water", Boot>> :
              b \in {x \in {Boot} : bpc \in {"read", "create"} /\ Head(bloc.queue) = g}}
    \cup {<<"append_log", k>> : k \in {c \in Callers : spc[c] = "write" /\ sloc[c].guild = g}}

\* C14: at no time do two operations have the log file of the same guild
\* open, whichever component they belong to
C14_OneAccessPerLog ==
    \A g \in Guilds : Cardinality(Accessing(g)) <= 1

\* the rows of a log, and a row whose start is not after its end
Rows(g) == {file[g].rows[i] : i \in DOMAIN file[g].rows}
InOrder(row) == row.start <= row.end

WriteRaises(t) == pc[t] = "append" /\ pc'[t] = "raised"

Ensured(g) ==
    /\ tmutex[g] # NoLock
    /\ file[g].exists
    /\ ~(lpc = "create" /\ Head(lloc) = g)

\* C22: an append gets past its wait only when load_logs has gone through
\* the guild it is for, and then it writes and returns: it never raises
C22_WaitsForOwnGuild ==
    \A k \in Callers :
        spc[k] \in {"write", "written", "raised"} =>
            (Ensured(sloc[k].guild) /\ spc[k] # "raised")

\* the cache of the reconciler holds the end of the event log_tree has
\* appended last
Accepted(g) ==
    /\ next_water[g] # None
    /\ file[g].rows # <<>>
    /\ LastRow(g).type = NoType
    /\ ParseDate(LastRow(g).end) = next_water[g]
\* the loop finds that the tree of the guild needs watering and goes on
\* to send the notification
WaterFoundDue(g) ==
    /\ gpc[WaterLoop] \in {"idle", "fetch"}
    /\ gpc'[WaterLoop] = "sending"
    /\ gloc'[WaterLoop].guild = g

\* C23: once log_tree has accepted a signal and cached its timestamp E
\* for a guild, the water loop does not find the tree of that guild in
\* need of watering before now > E: it compares now with the value the
\* reconciler wrote last
C23_GateComparesReconcilerValue ==
    [][\A g \in Guilds : Accepted(g) /\ WaterFoundDue(g) => now > next_water[g]]_vars

\* water notifications are on for the guild, with a channel, none is
\* cached, and now is past the next water time of the guild, in the
\* reconciler's cache and in that of TreeNextWater where it has one
WaterDue(g) ==
    /\ nconfig[g].channel_id /\ nconfig[g].water
    /\ notifications[g].loaded /\ notifications[g].water = None
    /\ next_water[g] # None /\ now > next_water[g]
    /\ nw_next[g] # None => now > nw_next[g]
\* the message the send request returned is cached
WaterActive(g) == notifications[g].water # None

\* C28: whenever water notifications are on and configured for a guild,
\* no water notification is cached and now is past the cached next water
\* time, the loop eventually sends and caches the message returned,
\* unless the reconciler moves the next water time on before it does
C28_DueWaterIsSent ==
    \A g \in 1..NGuilds : WaterDue(g) ~> (WaterActive(g) \/ ~WaterDue(g))

\* log_tree has written its row to the log of the guild of handler t
ReconcilerAppends(t) == pc[t] = "append" /\ pc'[t] = "update"
\* the log as read_log gives it to a caller that passes no window and no
\* filter_logs
DefaultRead(f) == ReadLog(f, None, None, FilterLogs({"water"}))

\* C24: the event log_tree appends is a row of three fields, start, end
\* and the type water, under the header start,end,type, so that read_log
\* with its default filter returns it
C24_ReconcilerRowIsReadable ==
    [][\A t \in Tasks :
          ReconcilerAppends(t)
          => LET f == file'[loc[t].guild]
                 row == f.rows[Len(f.rows)]
             IN  /\ f.header = "start,end,type"
                 /\ row.type = "water"
                 /\ DefaultRead(f).ok
                 /\ \E i \in DOMAIN DefaultRead(f).rows :
                        DefaultRead(f).rows[i]
                            = Row(ParseDate(row.start), ParseDate(row.end), "water")]_vars

\* the events of a category the last read_log had to choose from: the rows
\* of the log, as datetimes, of that category, wanted by the filter,
\* overlapping the window, with start <= end; in ascending order of start,
\* rows of one start in the order of the file
Wanted(c) ==
    LET rows == file[result.guild].rows
    IN  {i \in DOMAIN rows :
            /\ rows[i].type = c
            /\ TypeIsIn(c, result.filter_logs)
            /\ rows[i].start <= rows[i].end
            /\ ParseDate(rows[i].end) >= WindowStart
            /\ ParseDate(rows[i].start) <= WindowEnd}
ScannedBefore(i, j) ==
    LET rows == file[result.guild].rows
    IN  rows[i].start < rows[j].start \/ (rows[i].start = rows[j].start /\ i < j)
Scanned(c) ==
    [k \in 1..Cardinality(Wanted(c)) |->
        LET i == CHOOSE i \in Wanted(c) :
                     Cardinality({j \in Wanted(c) : ScannedBefore(j, i)}) = k - 1
            row == file[result.guild].rows[i]
        IN  Row(ParseDate(row.start), ParseDate(row.end), row.type)]
\* the greedy reference: the first event is kept, a later one if and only
\* if it starts at or after the end of the last event kept before it
GreedyKept(events) ==
    CHOOSE K \in SUBSET DOMAIN events :
        \A i \in DOMAIN events :
            i \in K <=> \/ i = 1
                        \/ LET kept == {j \in K : j < i}
                           IN  /\ kept # {}
                               /\ \A j \in kept :
                                      (\A l \in kept : l <= j) => events[i].start >= events[j].end
\* the rows of a category in the frame the last read_log returned
Returns(c) ==
    LET OfCategory(row) == row.type = c
    IN  SelectSeq(result.val.rows, OfCategory)

\* C25: in every category the rows read_log returns are the events the
\* greedy reference keeps, in their order, each with its category, start
\* and end
C25_OverlapRemovalIsGreedy ==
    ReadReturned =>
        \A c \in Range(Categories) :
            LET events == Scanned(c)
                K == GreedyKept(events)
            IN  /\ Len(Returns(c)) = Cardinality(K)
                /\ \A i \in K : Returns(c)[Cardinality({j \in K : j <= i})] = events[i]

\* C25 witness: read_log had three events of a category to choose from and
\* returned the first only: the second overlaps it, and the third, which
\* does not start before the end of the second, starts before the end of
\* the first
C25_Witness ==
    /\ ReadReturned
    /\ \E c \in Range(Categories) :
           /\ Len(Scanned(c)) = 3
           /\ Len(Returns(c)) = 1
           /\ Scanned(c)[3].start >= Scanned(c)[2].end
           /\ Scanned(c)[3].start < Scanned(c)[1].end

\* the delete request handler t made, having found the condition of its
\* category gone and a notification cached, is over
DeleteOver(t) == gpc[t] = "delete" /\ gpc'[t] # "delete"
\* the append_log call of handler t is over
AppendOver(t) == gpc[t] = "append" /\ gpc'[t] # "append"
\* another handler is at the append_log call for the same guild and category
AppendsToo(t) ==
    \E u \in GateTasks \ {t} :
        /\ gpc[u] = "append"
        /\ gloc[u].guild = gloc[t].guild
        /\ gloc[u].category = gloc[t].category

\* C26: when an evaluation finds the condition of insect or fruit false
\* with a notification cached, the message is deleted, one event with the
\* creation time of the message as start, now as end and the category is
\* appended to the log of the guild, by this evaluation alone unless
\* another has finished the job, and the cache entry is None afterwards
C26_EndedNotificationIsLogged ==
    [][\A t \in GateTasks :
          LET g == gloc[t].guild
              category == gloc[t].category
              message == gloc[t].message
          IN  /\ DeleteOver(t) =>
                    /\ messages'[message].deleted
                    /\ IF gpc'[t] = "append"
                       THEN /\ sloc'[t].guild = g
                            /\ sloc'[t].data
                                   = ButtonRow(messages[message].created_at, now, category)
                            /\ ~AppendsToo(t)
                       ELSE notifications[g][category] = None
              /\ AppendOver(t) =>
                    /\ sloc[t].data \in Rows(g)
                    /\ notifications'[g][category] = None]_vars

\* handler t goes on to delete the notification of a category
StartsDelete(t) ==
    /\ gpc'[t] = "delete"
    /\ gpc[t] # "delete" \/ gloc[t].category # gloc'[t].category
\* handler t goes on to append an event to the log
StartsAppend(t) == gpc'[t] = "append" /\ gpc[t] # "append"
\* a request of handler t for the guild and category comes back
RequestOver(t, g, category) ==
    /\ gpc[t] \in {"sending", "append"}
    /\ gloc[t].guild = g
    /\ gloc[t].category = category

\* C27: an evaluation that finds the condition true with a notification
\* cached, or false with none cached, does nothing: a send is issued only
\* with no notification cached, a delete only with one cached and the
\* condition false, an append only after a delete, and the cache entry
\* changes only when a send or an append comes back
C27_NoOpCases ==
    [][/\ \A t \in GateTasks :
             LET g == gloc'[t].guild
                 category == gloc'[t].category
                 cached == notifications[g][category]
             IN  /\ IssuesSend(t) =>
                       /\ cached = None
                       /\ gpc[t] # "send_lock" => Condition(category, gloc'[t].buttons, cached)
                 /\ StartsDelete(t) =>
                       /\ cached # None
                       /\ ~Condition(category, gloc'[t].buttons, cached)
                 /\ StartsAppend(t) => gpc[t] = "delete"
       /\ \A g \in Guilds, category \in Range(ButtonCategories) :
             notifications'[g][category] # notifications[g][category]
             => \/ \E t \in GateTasks : RequestOver(t, g, category)
                \/ ~notifications[g].loaded]_vars

\* C27 witness: a handler has found the insect condition true, by the
\* sticky rule, with the insect notification cached and
\* still in the channel, has left it alone, and has gone on to send the
\* fruit notification
C27_Witness ==
    \E t \in GateTasks :
        /\ gpc[t] = "sending"
        /\ gloc[t].category = "fruit"
        /\ gloc[t].config.insect
        /\ TreeHasInsect(gloc[t].buttons, notifications[gloc[t].guild].insect)
        /\ notifications[gloc[t].guild].insect # None
        /\ ~messages[notifications[gloc[t].guild].insect].deleted
        /\ Cardinality(Live(gloc[t].guild, "insect")) = 1

\* the rows of the clamped slice the outlier filter leaves, with their
\* uptime and downtime columns, and the last event of the slice
Kept == RemoveOutliers(UpDownColumns(Clamped), result.outlier_duration)
LastEvent == Clamped[Len(Clamped)]

\* C29: when the slice is not empty and its last event, clamped, ends
\* before the end of the window, the downtime calc_up_down returns is the
\* sum of the gaps it has kept plus the time from that end to the end of
\* the window; a slice of one event is no exception
C29_TrailingGapCounted ==
    (/\ Calculated
     /\ Slice.ok
     /\ Slice.rows # <<>>
     /\ LastEvent.dry < result.now) =>
        /\ result.val.ok
        /\ result.val.downtime
               = SumSeq([i \in DOMAIN Kept |-> Kept[i].downtime]) + (result.now - LastEvent.dry)

\* the events of the slice are in order and do not overlap, and neither a
\* clamped duration nor a gap between two events reaches the outlier
\* threshold
NothingToRemove ==
    /\ \A i \in DOMAIN Clamped : ~IsOutlier(Clamped[i])
    /\ \A i \in DOMAIN Clamped \ {1} :
           /\ Clamped[i].wet >= Clamped[i - 1].dry
           /\ Clamped[i].wet - Clamped[i - 1].dry < result.outlier_duration * Res
\* the time from the end of the last event to the end of the window
TrailingGap == IF LastEvent.dry < result.now THEN result.now - LastEvent.dry ELSE 0

\* C30: of a slice of ordered, non-overlapping events with no outlier
\* among them, the uptime returned is the sum of the clamped durations of
\* all events, the first included, and the downtime the sum of the gaps
\* between consecutive events plus the trailing gap
C30_SumsOverAllEvents ==
    (/\ Calculated
     /\ Slice.ok
     /\ Slice.rows # <<>>
     /\ NothingToRemove) =>
        result.val = UpDown(SumSeq([i \in DOMAIN Clamped |-> Clamped[i].dry - Clamped[i].wet]),
                            SumSeq([i \in DOMAIN Clamped |->
                                       IF i = 1 THEN 0 ELSE Clamped[i].wet - Clamped[i - 1].dry])
                                + TrailingGap)

\* what read_log returns of the log of the last read, with the filter of
\* that read, for a window that covers every row of the log
FullRead ==
    ReadLog(file[result.guild], now - Day, now + Day, result.filter_logs)
OverlapsWindow(row) == InInterval(row, WindowStart, WindowEnd)

\* C33: the rows read_log returns for a window are the rows of the
\* deduplicated full log that overlap the window: whether an event is
\* removed as an overlap does not depend on the window
C33_WindowIndependentRemoval ==
    ReadReturned => result.val.rows = SelectSeq(FullRead.rows, OverlapsWindow)

\* C34: whatever log log_tree has left and whatever the window, the
\* uptime and the downtime calc_up_down returns are not negative and
\* together not longer than the window
C34_WithinWindow ==
    (Calculated /\ result.val.ok) =>
        /\ result.val.uptime >= 0
        /\ result.val.downtime >= 0
        /\ result.val.uptime + result.val.downtime <= result.now - Cutoff

\* the events of a category in the log of the guild, and the
\* notifications of the category that were sent to the guild
EventsLogged(g, category) ==
    {i \in DOMAIN file[g].rows : file[g].rows[i].type = category}
NotificationsSent(g, category) ==
    {i \in DOMAIN messages : messages[i].guild = g /\ messages[i].category = category}
\* the handlers whose delete request for the message is under way
Deleting(message) ==
    {t \in GateTasks : gpc[t] \in {"delete", "temp_delete"} /\ gloc[t].message = message}

\* C35: the log of a guild never holds more events of a category than
\* notifications of the category were sent to the guild, and a
\* notification is deleted at most once: no two delete requests for one
\* message, and none for a message already deleted
C35_OneEventPerNotification ==
    /\ \A g \in Guilds, category \in Range(ButtonCategories) :
           Cardinality(EventsLogged(g, category))
               <= Cardinality(NotificationsSent(g, category))
    /\ \A message \in DOMAIN messages :
           /\ Cardinality(Deleting(message)) <= 1
           /\ messages[message].deleted => Deleting(message) = {}

\* the places where a task waits for a lock or for a loaded flag:
\* fetch_guild and send_notification in the water loop, the lock of the
\* guild in log_tree
GateWaits == {"fetch", "send_lock"}
\* C38: once the log store is loaded, a task that waits for a lock or for
\* a loaded flag eventually goes on, under fair scheduling
C38_WaitersProceed ==
    /\ \A where \in GateWaits :
           (loaded /\ gpc[WaterLoop] = where) ~> (gpc[WaterLoop] # where)
    /\ \A t \in Tasks : (loaded /\ pc[t] = "lock") ~> (pc[t] # "lock")

\* the step in which the cache entry of the guild is written by log_tree
UpdatesCache(t, g) == pc[t] = "update" /\ pc'[t] # "update" /\ loc[t].guild = g
\* the rows log_tree has appended to the log of the guild in this run:
\* their wet is the edited_at of a message edited since the start
AppendedInRun(f) ==
    LET SinceStart(row) == row.start >= Strftime(0)
    IN  SelectSeq(f.rows, SinceStart)
EndsIncrease(rows) ==
    \A i, j \in DOMAIN rows : i < j => rows[i].end < rows[j].end

\* C39: the cached next_water of a guild never decreases: an accepted
\* signal sets it to a later time than it held, every other step of log_tree and set_default_next_water leaves a
\* value that is there as it is, and the dry times of the rows appended
\* in this run increase strictly in the order of the log
C39_NextWaterIncreases ==
    [][\A g \in Guilds :
          /\ next_water[g] # None =>
                 (next_water'[g] # None /\ next_water'[g] >= next_water[g])
          /\ IF \E t \in Tasks : UpdatesCache(t, g)
             THEN /\ next_water'[g] # None
                  /\ next_water[g] # None => next_water'[g] > next_water[g]
             ELSE next_water[g] # None => next_water'[g] = next_water[g]
          /\ EndsIncrease(AppendedInRun(file'[g]))]_vars

\* C39 witness: two signals were accepted and logged for a guild, the
\* cache holds the dry of the second, the bootstrap has run again since,
\* and a signal has just been rejected against the cache
C39_Witness ==
    \E g \in Guilds, t \in Tasks :
        /\ Len(AppendedInRun(file[g])) >= 2
        /\ next_water[g] = ParseDate(LastRow(g).end)
        /\ bpc = "done"
        /\ pc[t] = "goal" /\ loc[t].guild = g
        /\ loc[t].outcome = "rejected: not after next_water"

\* C37: the notification of the goal is sent to a guild at most once,
\* however the updates that pass the goal interleave, and once it is sent
\* reached is true
C37_GoalSentOnce ==
    \A g \in Guilds :
        /\ Cardinality(NotificationsSent(g, "goal")) <= 1
        /\ NotificationsSent(g, "goal") # {} => config[g].tree_goal.reached

\* both evaluations are over, and the later one, which found the insect
\* condition false while the send was under way, has left its own
\* notification of the fruit
BothOver(g) ==
    /\ \A t \in GateTasks : gpc[t] = "idle"
    /\ NotificationsSent(g, "fruit") # {}
\* C36: when an update with the condition false is evaluated while the
\* send of an update with the condition true is under way, then after
\* both no notification is cached for the category and no message sent
\* for it is left in the channel
C36_OvertakenSendEndsAbsent ==
    \A g \in Guilds :
        BothOver(g) => (notifications[g].insect = None /\ Live(g, "insect") = {})

\* the step in which on_raw_message_edit of TreeNotifCog, or of
\* TreeLoggingCog, is over for handler t
NotifHandlerOver(t) == gpc[t] # "idle" /\ gpc'[t] = "idle"
LoggingHandlerOver(t) == pc[t] # "idle" /\ pc'[t] = "idle"
\* C32: when the handling of a status update is over, the loops of the
\* cog are running, whether they had stopped, had never been started or
\* were running already
C32_HandledUpdateRestartsLoops ==
    [][/\ \A t \in GateTasks :
             NotifHandlerOver(t) => \A l \in NotifLoops : running'[l]
       /\ \A t \in Tasks :
             LoggingHandlerOver(t) => \A l \in LoggingLoops : running'[l]]_vars

\* the general config of the guild has no channel or no tree name; its
\* notification config has no channel; its status config has no channel
NoTree(g) == ~config[g].general.channel_id \/ ~config[g].general.tree_name
NoChannel(g) == ~nconfig[g].channel_id
NoStatus(g) == ~config[g].status_message.channel_id
\* the messages in the channel of the guild
GuildMessages(channel, g) ==
    LET InGuild(message) == message.guild = g
    IN  SelectSeq(channel, InGuild)

\* C31: for a guild with no tree set up no update gets as far as log_tree
\* or process_button_notification: the log and the cached next_water stay
\* as they are; for a guild with no notification channel neither the
\* handlers nor the loops send, delete or touch the cached
\* notifications; and a loop that has only such guilds to go through
\* never stops with an exception
C31_NoChannelIsNoOp ==
    [][/\ \A g \in Guilds :
             /\ NoTree(g) =>
                   /\ file'[g] = file[g]
                   /\ next_water'[g] = next_water[g]
                   /\ \A t \in Tasks : pc'[t] # "idle" => loc'[t].guild # g
             /\ (NoTree(g) \/ NoChannel(g)) =>
                   \A t \in GateTasks : gpc'[t] # "idle" => gloc'[t].guild # g
             /\ NoChannel(g) =>
                   /\ notifications[g].loaded => notifications'[g] = notifications[g]
                   /\ GuildMessages(messages', g) = GuildMessages(messages, g)
                   /\ gpc'[WaterLoop] # "idle" => gloc'[WaterLoop].guild # g
       /\ (\A g \in Guilds : NoChannel(g)) =>
             \A l \in NotifLoops : running[l] => running'[l]
       /\ (\A g \in Guilds : NoStatus(g)) =>
             \A l \in LoggingLoops : running[l] => running'[l]]_vars

\* C31 witness: a guild has no tree and no notification channel, updates
\* have come in at both cogs, which started every loop, and the
\* notification cached from before is still cached and in the channel
C31_Witness ==
    \E g \in Guilds :
        /\ NoTree(g) /\ NoChannel(g)
        /\ \A l \in Loops : running[l]
        /\ notifications[g] = Cached
        /\ Live(g, "insect") # {}
        /\ file[g].rows = <<>>
====
